---- MODULE Spec2Model ----
(***************************************************************************)
(* Model of docker-registry-dashboard's two automation engines:            *)
(*   - the retention engine (registry.RunRetention / processRepository),   *)
(*   - the scan scheduler (tasks.Scheduler) and the scan store             *)
(*     (database.DB.SaveScan, UpdatePolicyRunTime).                        *)
(* Each engine has its own specification over the shared variable list;    *)
(* a specification leaves the other engine's variables unchanged.          *)
(***************************************************************************)
EXTENDS Integers, Sequences, FiniteSets, TLC

VARIABLES
    \* ---- retention engine (registry.processRepository) ----
    policy,       \* *models.RetentionPolicy passed to the run
    repoTags,     \* registry content: tag name -> [Digest, Created]
    rpc,          \* position of processRepository
    images,       \* []imageInfo
    decisions,    \* []tagDecision
    keptDigests,  \* map[string]bool, as the set of its keys
    logs,         \* []models.RetentionLog
    deleteCalls,  \* DeleteManifest calls issued, in order: [Repo, Digest, Ok]
    fetchErrs,    \* <<repository, tag>> pairs whose creation-time or digest fetch failed
    runPc,        \* position of RunRetention
    repoIdx,      \* index in Repositories of the repository of the loop
    allLogs,      \* RunRetention's logs, the list it returns
    repoStatus,   \* per repository: pending, skipped, list_tags_err, no_tags, processed
    \* ---- scan scheduler (tasks.Scheduler) and its store ----
    started,      \* Start() has spawned the workers and the ticker
    clock,        \* time.Now(), in hours
    scanPolicies, \* table scan_policies: policy id -> row
    dispatch,     \* triggerPolicy goroutines, in launch order
    jobChan,      \* s.jobChan, the buffered channel's content
    workers,      \* worker goroutines: worker id -> position and locals
    vulnScans,    \* table vuln_scans: row id -> row
    received,     \* number of jobs the workers have received from jobChan
    ticks,        \* number of checkSchedules calls so far
    lastSaved,    \* scan key -> {the record of the latest completed SaveScan}
    callsLeft,    \* Start() / Stop() calls the owner of the scheduler still makes
    quitClosed,   \* close(s.quit) has happened
    chanClosed,   \* close(s.jobChan) has happened
    tickers,      \* number of running runTicker goroutines
    stopPc,       \* position of the Stop() call: none, close_jobs, wait, returned
    panicked,     \* a goroutine panicked: the process is gone
    chanSeqs,     \* for each job in jobChan, its number in order of acceptance
    recvCount,    \* for each accepted job, how many times a worker received it
    saveErrs,     \* number of SaveScan calls of the workers that returned an error
    chanCap,      \* cap(s.jobChan), fixed when the scheduler is constructed
    \* ---- scan API (handlers.TriggerScan, handlers.SaveScanPolicy) ----
    apiScan,      \* per scanner: the TriggerScan request and its goroutine
    edits,        \* number of SaveScanPolicy requests served
    \* ---- retention API (handlers.RunRetention) and its store ----
    retPolicies,  \* table retention_policies: registry id -> row
    retApi,       \* the RunRetention request: position, dry_run parameter, status
    \* ---- retention engine: the fetch goroutines of processRepository ----
    fetchers,     \* per tag: position and locals of its goroutine
    sem           \* number of tokens in the channel sem

\* The fetch goroutines of one processRepository call.
fetchVars == <<fetchers, sem>>

\* RunRetention's own state, around the processRepository calls.
runVars == <<runPc, repoIdx, allLogs, repoStatus, fetchVars>>

retVars == <<policy, repoTags, rpc, images, decisions, keptDigests, logs, deleteCalls,
             fetchErrs, runVars>>

\* The scheduler's shutdown machinery and the process state.
lifeVars == <<callsLeft, quitClosed, chanClosed, tickers, stopPc, panicked>>

\* Bookkeeping of the jobs that went through jobChan.
jobVars == <<chanSeqs, recvCount, saveErrs, chanCap>>

\* The requests of the API.
\* The retention API and the table it reads and writes.
retApiVars == <<retPolicies, retApi>>

apiVars == <<apiScan, edits, retApiVars>>

schedVars == <<started, clock, scanPolicies, dispatch, jobChan, workers, vulnScans,
               received, ticks, lastSaved, lifeVars, jobVars, apiVars>>

vars == <<retVars, schedVars>>

-----------------------------------------------------------------------------
(* Retention engine: inputs                                                 *)

\* Largest keepLastCount / keepDays a policy of the model carries.
MaxKeepLastCount == 2
MaxKeepDays == 2

\* time.Now() of the run, in hours.
Now == 100
HoursPerDay == 24

\* client.ListRepositories(), in catalog order; HasTags tells whether
\* client.ListTags returns any tag for the repository.
Repositories ==
    <<[Name |-> "library/app", HasTags |-> TRUE],
      [Name |-> "library/db", HasTags |-> TRUE],
      [Name |-> "tools/empty", HasTags |-> FALSE]>>
RepoIDs == 1..Len(Repositories)

\* The repository processRepository is called for.
RepoName == Repositories[repoIdx].Name
\* client.ListTags(repoName), in listing order.
TagList == <<"latest", "v1", "v2">>
TagNames == {TagList[i] : i \in 1..Len(TagList)}
DigestNames == {"sha256:aa", "sha256:bb"}
\* Image creation times, in hours: 23 h, 24 h and 48 h before Now.
CreatedTimes == {Now - 23, Now - 24, Now - 48}
\* policy.ExcludeTags: empty, or a pattern with a known set of matches.
ExcludeTagPatterns == {"", "^latest$", "^(latest|v1)$"}
\* The same for a whole run, with "(" which regexp.Compile rejects.
RunExcludeTagPatterns == {"", "^(latest|v1)$", "("}

\* policy.FilterRepos / policy.ExcludeRepos: empty, a pattern with a known set
\* of matches, or "(" which regexp.Compile rejects.
FilterRepoPatterns == {"", "^library/", "("}
ExcludeRepoPatterns == {"", "db$", "("}

\* regexp.Compile(re) returns no error.
Compiles(re) == re # "("

\* regexp.MatchString for the patterns of the model.
MatchString(re, s) ==
    CASE re = "^latest$" -> s = "latest"
      [] re = "^(latest|v1)$" -> s \in {"latest", "v1"}
      [] re = "^library/" -> s \in {"library/app", "library/db"}
      [] re = "db$" -> s = "library/db"
      [] re = "^latest$|^main$|^master$" -> s \in {"latest", "main", "master"}
      [] OTHER -> FALSE

\* Mutant: the whitelist match is never recorded on the candidate.
IsProtectedNever(t) == FALSE

\* excludeTagRe != nil: the pattern is set and compiled; a pattern that does
\* not compile is logged and leaves the regexp nil.
ExcludeTagRe == policy.ExcludeTags # "" /\ Compiles(policy.ExcludeTags)

\* excludeTagRe != nil && excludeTagRe.MatchString(t)
IsProtected(t) ==
    /\ ExcludeTagRe
    /\ MatchString(policy.ExcludeTags, t)

TruncDiv(a, b) == IF a >= 0 THEN a \div b ELSE -((-a) \div b)

-----------------------------------------------------------------------------
(* Retention engine: processRepository                                      *)

ImageInfo(t) ==
    [Tag |-> t, Digest |-> repoTags[t].Digest,
     Created |-> repoTags[t].Created, Protected |-> IsProtected(t)]

\* Mutant: a tag whose digest fetch failed is appended with what was fetched.
FetchedCreatedOnly(outcome, t) == outcome[t] # "created_err"

\* A tag's goroutine reaches the append: neither GetImageCreated nor
\* GetDigestForTag returned an error.
Fetched(outcome, t) == outcome[t] = "ok"

\* The fetch goroutines, joined by wg.Wait(): a tag is appended iff both
\* GetImageCreated and GetDigestForTag succeed.  The append order depends on
\* goroutine completion; SortImages below yields every order the comparator
\* allows, which covers every append order.
FetchDetails ==
    /\ rpc = "fetch"
    /\ \E outcome \in [TagNames -> {"ok", "created_err", "digest_err"}] :
         /\ images' = SelectSeq([i \in 1..Len(TagList) |-> ImageInfo(TagList[i])],
                                LAMBDA im : Fetched(outcome, im.Tag))
         /\ fetchErrs' = fetchErrs \cup
                            {<<RepoName, t>> : t \in {u \in TagNames : outcome[u] # "ok"}}
    /\ rpc' = "sort"
    /\ UNCHANGED <<policy, repoTags, decisions, keptDigests, logs, deleteCalls>>
    /\ UNCHANGED runVars
    /\ UNCHANGED schedVars

\* less(i, j) of sort.Slice: images[i].Created.After(images[j].Created)
Less(a, b) == a.Created > b.Created

IsSorted(s) == \A i, j \in 1..Len(s) : i < j => ~Less(s[j], s[i])

\* sort.Slice is not stable: any order consistent with Less may result.
SortImages ==
    /\ rpc = "sort"
    /\ \E p \in Permutations(1..Len(images)) :
         LET s == [i \in 1..Len(images) |-> images[p[i]]]
         IN  IsSorted(s) /\ images' = s
    /\ rpc' = "pass1"
    /\ UNCHANGED <<policy, repoTags, decisions, keptDigests, logs, deleteCalls>>
    /\ UNCHANGED <<fetchErrs, runVars>>
    /\ UNCHANGED schedVars

\* Mutant: off by one, i <= policy.KeepLastCount.
KeepByCountOffByOne(i) == policy.KeepLastCount > 0 /\ i <= policy.KeepLastCount

\* Rule 1: policy.KeepLastCount > 0 && i < policy.KeepLastCount (i 0-based)
KeepByCount(i) == policy.KeepLastCount > 0 /\ i < policy.KeepLastCount

\* days := int(now.Sub(img.Created).Hours() / 24)
AgeDays(created) == TruncDiv(Now - created, HoursPerDay)

\* Mutant: days <= policy.KeepDays.
KeepByAgeInclusive(img) ==
    policy.KeepDays > 0 /\ TruncDiv(Now - img.Created, HoursPerDay) <= policy.KeepDays

\* Rule 2: policy.KeepDays > 0 && days < policy.KeepDays
KeepByAge(img) == policy.KeepDays > 0 /\ AgeDays(img.Created) < policy.KeepDays

\* Mutant: the safety net tests == 0 instead of <= 0.
NoPolicySetZeroOnly == policy.KeepLastCount = 0 /\ policy.KeepDays = 0

\* Safety: policy.KeepLastCount <= 0 && policy.KeepDays <= 0
NoPolicySet == policy.KeepLastCount <= 0 /\ policy.KeepDays <= 0

\* One iteration of pass 1 for images[i + 1] (i is the 0-based loop index).
Decide(i, img) ==
    LET k1 == KeepByCount(i)
        r1 == IF k1 THEN "within last " \o ToString(policy.KeepLastCount) \o " images"
                    ELSE "default keep"
        k2 == KeepByAge(img)
        r2 == IF k2
              THEN IF k1 THEN r1 \o " AND newer than " \o ToString(policy.KeepDays) \o " days"
                         ELSE "newer than " \o ToString(policy.KeepDays) \o " days"
              ELSE r1
        r3 == IF img.Protected
              THEN IF r2 = "default keep" THEN "matches whitelist tag"
                                          ELSE r2 \o " AND matches whitelist"
              ELSE r2
    IN  [img |-> img,
         keep |-> k1 \/ k2 \/ img.Protected \/ NoPolicySet,
         reason |-> IF NoPolicySet THEN "no policy set" ELSE r3]

\* Pass 1: Evaluate Rules (the whole loop; it has no side effect).
EvaluateRules ==
    /\ rpc = "pass1"
    /\ decisions' = [i \in 1..Len(images) |-> Decide(i - 1, images[i])]
    /\ keptDigests' = {decisions'[i].img.Digest :
                          i \in {j \in 1..Len(images) : decisions'[j].keep}}
    /\ rpc' = "pass2"
    /\ UNCHANGED <<policy, repoTags, images, logs, deleteCalls>>
    /\ UNCHANGED <<fetchErrs, runVars>>
    /\ UNCHANGED schedVars

\* Mutant: the shared-digest check is left out.
SharedWithKeptNever(d) == FALSE

\* keptDigests[d.img.Digest]
SharedWithKept(d) == d.img.Digest \in keptDigests

\* Mutant: the dry-run flag is ignored.
IsDryRunIgnored == FALSE

\* policy.DryRun
IsDryRun == policy.DryRun

LogEntry(d, action, reason) ==
    [Repository |-> RepoName, Tag |-> d.img.Tag, Digest |-> d.img.Digest,
     Created |-> d.img.Created, Action |-> action, Reason |-> reason]

\* The registry still holds the manifest: no DeleteManifest of this run has
\* removed it.  Tags are references to a manifest; deleting by digest removes
\* the manifest for every tag that resolves to it.
ManifestPresent(repo, digest) ==
    \A c \in 1..Len(deleteCalls) :
        ~(deleteCalls[c].Ok /\ deleteCalls[c].Repo = repo /\ deleteCalls[c].Digest = digest)

\* client.DeleteManifest returns nil on 202 / 200 and an error otherwise.  The
\* registry may refuse any DELETE; it answers 404 for a manifest it no longer
\* holds.
DeleteOutcomes(repo, digest) ==
    IF ManifestPresent(repo, digest) THEN BOOLEAN ELSE {FALSE}

\* Mutant: a DeleteManifest that failed is logged as done.
DeleteActionAlwaysDeleted(ok) == "deleted"

\* action after client.DeleteManifest: 'error_delete' on an error, else
\* 'deleted'; the loop goes on with the next decision either way.
DeleteAction(ok) == IF ok THEN "deleted" ELSE "error_delete"

\* Pass 2: one iteration of the action loop, for decisions[Len(logs) + 1].
ExecuteAction ==
    /\ rpc = "pass2"
    /\ Len(logs) < Len(decisions)
    /\ LET d == decisions[Len(logs) + 1]
       IN  \/ /\ d.keep
              /\ logs' = Append(logs, LogEntry(d, "kept", d.reason))
              /\ UNCHANGED deleteCalls
           \/ /\ ~d.keep
              /\ SharedWithKept(d)
              /\ logs' = Append(logs, LogEntry(d, "kept", "digest shared with retained tag"))
              /\ UNCHANGED deleteCalls
           \/ /\ ~d.keep
              /\ ~SharedWithKept(d)
              /\ IsDryRun
              /\ logs' = Append(logs, LogEntry(d, "would_delete", "exceeds retention limits"))
              /\ UNCHANGED deleteCalls
           \/ /\ ~d.keep
              /\ ~SharedWithKept(d)
              /\ ~IsDryRun
              /\ \E ok \in DeleteOutcomes(RepoName, d.img.Digest) :
                   /\ deleteCalls' = Append(deleteCalls,
                          [Repo |-> RepoName, Digest |-> d.img.Digest, Ok |-> ok])
                   /\ logs' = Append(logs,
                        LogEntry(d, DeleteAction(ok),
                                 IF ok THEN "exceeds retention limits"
                                       ELSE "failed to delete: registry error"))
    /\ UNCHANGED <<policy, repoTags, rpc, images, decisions, keptDigests>>
    /\ UNCHANGED <<fetchErrs, runVars>>
    /\ UNCHANGED schedVars

\* return logs, nil
ReturnLogs ==
    /\ rpc = "pass2"
    /\ Len(logs) = Len(decisions)
    /\ rpc' = "done"
    /\ UNCHANGED <<policy, repoTags, images, decisions, keptDigests, logs, deleteCalls>>
    /\ UNCHANGED <<fetchErrs, runVars>>
    /\ UNCHANGED schedVars

-----------------------------------------------------------------------------
(* Retention engine: RunRetention                                           *)

\* repos, err := client.ListRepositories(); an error ends the run:
\* return nil, fmt.Errorf("failed to list repositories: %w", err)
ListRepositories ==
    /\ runPc = "list_repos"
    /\ \E ok \in BOOLEAN : runPc' = IF ok THEN "loop" ELSE "failed"
    /\ repoIdx' = 1
    /\ UNCHANGED <<policy, repoTags, rpc, images, decisions, keptDigests, logs, deleteCalls,
                   fetchErrs, allLogs, repoStatus, fetchVars>>
    /\ UNCHANGED schedVars

\* Mutant: policy.ExcludeRepos is not compiled at all.
ExcludeRepoReNever == FALSE

\* Mutant: a pattern that does not compile still filters, and matches nothing.
FilterRepoReUncompiled == policy.FilterRepos # ""

\* filterRepoRe != nil: the pattern is set and compiled; a pattern that does
\* not compile is logged and leaves the regexp nil.
FilterRepoRe == policy.FilterRepos # "" /\ Compiles(policy.FilterRepos)
ExcludeRepoRe == policy.ExcludeRepos # "" /\ Compiles(policy.ExcludeRepos)

\* The two continue statements of the repository loop.
SkippedByFilters(name) ==
    \/ FilterRepoRe /\ ~MatchString(policy.FilterRepos, name)
    \/ ExcludeRepoRe /\ MatchString(policy.ExcludeRepos, name)

\* if filterRepoRe != nil && !filterRepoRe.MatchString(repo.Name) { continue }
\* if excludeRepoRe != nil && excludeRepoRe.MatchString(repo.Name) { continue }
SkipRepository ==
    /\ runPc = "loop"
    /\ repoIdx \in RepoIDs
    /\ SkippedByFilters(RepoName)
    /\ repoStatus' = [repoStatus EXCEPT ![repoIdx] = "skipped"]
    /\ repoIdx' = repoIdx + 1
    /\ UNCHANGED <<policy, repoTags, rpc, images, decisions, keptDigests, logs, deleteCalls,
                   fetchErrs, runPc, allLogs, fetchVars>>
    /\ UNCHANGED schedVars

\* Mutant: an error of processRepository ends the repository loop.
AfterRepoErrorBreak(i) == Len(Repositories) + 1

\* if err != nil { log.Printf(...); continue }
AfterRepoError(i) == i + 1

\* processRepository, up to the fetch: ListTags fails (return nil, err), or
\* lists no tag (return nil, nil), or lists the tags the goroutines fetch.
EnterRepository ==
    /\ runPc = "loop"
    /\ repoIdx \in RepoIDs
    /\ ~SkippedByFilters(RepoName)
    /\ \E ok \in BOOLEAN :
         IF ~ok
         THEN /\ repoStatus' = [repoStatus EXCEPT ![repoIdx] = "list_tags_err"]
              /\ repoIdx' = AfterRepoError(repoIdx)
              /\ UNCHANGED <<rpc, runPc>>
         ELSE IF ~Repositories[repoIdx].HasTags
         THEN /\ repoStatus' = [repoStatus EXCEPT ![repoIdx] = "no_tags"]
              /\ repoIdx' = repoIdx + 1
              /\ UNCHANGED <<rpc, runPc>>
         ELSE /\ rpc' = "fetch"
              /\ runPc' = "in_repo"
              /\ UNCHANGED <<repoStatus, repoIdx>>
    /\ UNCHANGED <<policy, repoTags, images, decisions, keptDigests, logs, deleteCalls,
                   fetchErrs, allLogs, fetchVars>>
    /\ UNCHANGED schedVars

\* Mutant: the repository's logs replace the list.
AppendLogsOverwrite(all, repoLogs) == repoLogs

\* logs = append(logs, repoLogs...)
AppendLogs(all, repoLogs) == all \o repoLogs

\* processRepository has returned its logs: they are appended and the loop
\* goes on; the locals of the call are gone.
AppendRepoLogs ==
    /\ runPc = "in_repo"
    /\ rpc = "done"
    /\ allLogs' = AppendLogs(allLogs, logs)
    /\ repoStatus' = [repoStatus EXCEPT ![repoIdx] = "processed"]
    /\ repoIdx' = repoIdx + 1
    /\ runPc' = "loop"
    /\ rpc' = "idle"
    /\ images' = <<>>
    /\ decisions' = <<>>
    /\ keptDigests' = {}
    /\ logs' = <<>>
    /\ UNCHANGED <<policy, repoTags, deleteCalls, fetchErrs, fetchVars>>
    /\ UNCHANGED schedVars

\* return logs, nil
ReturnAllLogs ==
    /\ runPc = "loop"
    /\ repoIdx > Len(Repositories)
    /\ runPc' = "returned"
    /\ UNCHANGED <<policy, repoTags, rpc, images, decisions, keptDigests, logs, deleteCalls,
                   fetchErrs, repoIdx, allLogs, repoStatus, fetchVars>>
    /\ UNCHANGED schedVars

-----------------------------------------------------------------------------
(* Scan scheduler: inputs                                                   *)

\* Capacity of jobChan in the model (make(chan ScanJob, 100) in the source).
QueueCap == 1
\* Last clock reading of the model, and the number of triggerPolicy launches.
MaxClock == 3
MaxTriggers == 2
\* Number of ticks of the ticker.
MaxTicks == 3

\* Start() calls that find worker slots, and Start() / Stop() calls in all.
MaxStarts == 2
MaxCalls == 3

NumWorkers == 2
DefaultIntervalHours == 24
\* The zero time.Time (a NULL next_run_at / last_run_at).
ZeroTime == 0

\* Every Start() spawns NumWorkers worker goroutines.
WorkerIDs == 0..(NumWorkers * MaxStarts - 1)
PolicyIDs == {1}
ScanRegistry == [ID |-> 1, URL |-> "registry:5000"]
\* client.ListRepositories() and client.ListTags(repo) of the scanned registry.
ScanRepos == <<[Name |-> "library/app", Tags |-> <<"latest", "v1">>]>>

\* A second registry of the table registries, and its content.
MirrorRegistry == [ID |-> 2, URL |-> "mirror:5000"]
MirrorRepos ==
    <<[Name |-> "library/app", Tags |-> <<"latest">>],
      [Name |-> "tools/cli", Tags |-> <<"latest">>]>>

\* s.db.GetRegistry(id), and what the registry's client lists.
RegistryOf(id) == IF id = ScanRegistry.ID THEN ScanRegistry ELSE MirrorRegistry
ReposOf(id) == IF id = ScanRegistry.ID THEN ScanRepos ELSE MirrorRepos

\* The (registryID, repository, tag) keys of the registries' images.
KeysOf(id) ==
    UNION {{[RegistryID |-> id, Repository |-> ReposOf(id)[r].Name,
             Tag |-> ReposOf(id)[r].Tags[t]] : t \in 1..Len(ReposOf(id)[r].Tags)} :
              r \in 1..Len(ReposOf(id))}
ScanKeys == KeysOf(ScanRegistry.ID) \cup KeysOf(MirrorRegistry.ID)

IdleWorker == [pc |-> "idle", job |-> "none", scan |-> "none", found |-> 0]

-----------------------------------------------------------------------------
(* Scan scheduler: Start, runTicker, checkSchedules                         *)

\* The worker goroutines that have been spawned and have not returned.
LiveWorkers == {w \in WorkerIDs : workers[w].pc \notin {"off", "exited", "crashed"}}

\* The slots of the goroutines the next Start() spawns.
FreeSlots == {w \in WorkerIDs : workers[w].pc = "off"}
NewWorkers == {w \in FreeSlots : Cardinality({v \in FreeSlots : v < w}) < NumWorkers}

\* for i := 0; i < 2; i++ { s.wg.Add(1); go s.worker(i) }: nothing in Start()
\* looks at what an earlier Start() or Stop() did.
SpawnOnStart == NewWorkers

\* The owner of the scheduler calls Start() and Stop() one after the other.
NoCallInProgress == stopPc \in {"none", "returned"}

\* Start(): two workers and the ticker.
Start ==
    /\ callsLeft > 0
    /\ NoCallInProgress
    /\ Cardinality(FreeSlots) >= NumWorkers
    /\ callsLeft' = callsLeft - 1
    /\ started' = TRUE
    /\ workers' = [w \in WorkerIDs |-> IF w \in SpawnOnStart THEN IdleWorker ELSE workers[w]]
    /\ tickers' = IF SpawnOnStart = {} THEN tickers ELSE tickers + 1
    /\ UNCHANGED <<clock, scanPolicies, dispatch, jobChan, vulnScans, received, ticks, lastSaved>>
    /\ UNCHANGED <<quitClosed, chanClosed, stopPc, panicked, jobVars>>
    /\ UNCHANGED <<apiVars, retVars>>

\* A panic no goroutine recovers from ends the process: every goroutine is
\* gone, what jobChan still buffers is never processed, no call returns.
Crash ==
    /\ panicked' = TRUE
    /\ workers' = [w \in WorkerIDs |-> [workers[w] EXCEPT !.pc = "crashed"]]
    /\ dispatch' = [d \in 1..Len(dispatch) |-> [dispatch[d] EXCEPT !.pc = "crashed"]]
    /\ tickers' = 0
    /\ callsLeft' = 0
    /\ stopPc' = "crashed"
    /\ UNCHANGED <<started, clock, scanPolicies, jobChan, vulnScans, received, ticks, lastSaved>>
    /\ UNCHANGED <<quitClosed, chanClosed, jobVars>>
    /\ UNCHANGED <<apiVars, retVars>>

\* Stop(), first statement: close(s.quit).  Closing a closed channel panics.
StopCloseQuit ==
    /\ callsLeft > 0
    /\ NoCallInProgress
    /\ IF quitClosed
       THEN Crash
       ELSE /\ quitClosed' = TRUE
            /\ stopPc' = "close_jobs"
            /\ callsLeft' = callsLeft - 1
            /\ UNCHANGED <<started, clock, scanPolicies, dispatch, jobChan, workers, vulnScans,
                           received, ticks, lastSaved>>
            /\ UNCHANGED <<chanClosed, tickers, panicked, jobVars>>
            /\ UNCHANGED <<apiVars, retVars>>

\* Stop(), second statement: close(s.jobChan).
StopCloseJobChan ==
    /\ stopPc = "close_jobs"
    /\ chanClosed' = TRUE
    /\ stopPc' = "wait"
    /\ UNCHANGED <<started, clock, scanPolicies, dispatch, jobChan, workers, vulnScans,
                   received, ticks, lastSaved>>
    /\ UNCHANGED <<callsLeft, quitClosed, tickers, panicked, jobVars>>
    /\ UNCHANGED <<apiVars, retVars>>

\* Stop(), third statement: s.wg.Wait() returns when every worker has
\* called wg.Done().
StopReturn ==
    /\ stopPc = "wait"
    /\ LiveWorkers = {}
    /\ stopPc' = "returned"
    /\ UNCHANGED <<started, clock, scanPolicies, dispatch, jobChan, workers, vulnScans,
                   received, ticks, lastSaved>>
    /\ UNCHANGED <<callsLeft, quitClosed, chanClosed, tickers, panicked, jobVars>>
    /\ UNCHANGED <<apiVars, retVars>>

\* runTicker: case <-s.quit: return
TickerExit ==
    /\ tickers > 0
    /\ quitClosed
    /\ tickers' = tickers - 1
    /\ UNCHANGED <<started, clock, scanPolicies, dispatch, jobChan, workers, vulnScans,
                   received, ticks, lastSaved>>
    /\ UNCHANGED <<callsLeft, quitClosed, chanClosed, stopPc, panicked, jobVars>>
    /\ UNCHANGED <<apiVars, retVars>>

\* The wall clock moves on between two ticks.
AdvanceClock ==
    /\ clock < MaxClock
    /\ clock' = clock + 1
    /\ UNCHANGED <<started, scanPolicies, dispatch, jobChan, workers, vulnScans, received, ticks, lastSaved>>
    /\ UNCHANGED <<lifeVars, jobVars>>
    /\ UNCHANGED <<apiVars, retVars>>

\* Mutant: a policy is due as soon as now reaches NextRunAt.
IsDueInclusive(p, now) == p.NextRunAt = ZeroTime \/ now >= p.NextRunAt

\* p.NextRunAt.IsZero() || now.After(p.NextRunAt)
IsDue(p, now) == p.NextRunAt = ZeroTime \/ now > p.NextRunAt

\* interval := p.IntervalHours; if interval < 1 { interval = 24 }
\* next := now.Add(time.Duration(interval) * time.Hour)
NextRun(p, now) ==
    now + (IF p.IntervalHours < 1 THEN DefaultIntervalHours ELSE p.IntervalHours)

\* Mutant: the update is not persisted.
UpdatePolicyRunTimeLost(table, id, lastRun, nextRun) == table

\* db.UpdatePolicyRunTime(id, lastRun, nextRun)
UpdatePolicyRunTime(table, id, lastRun, nextRun) ==
    [table EXCEPT ![id].LastRunAt = lastRun, ![id].NextRunAt = nextRun]

\* go s.triggerPolicy(p): p is passed by value, as read by this tick.
\* at and tick record the tick that launched it.
NewDispatch(p, now, tick) ==
    [policy |-> p, at |-> now, tick |-> tick,
     pc |-> "start", repo |-> 0, tag |-> 0, count |-> 0]

\* The ids of the rows ListEnabledScanPolicies returns that the loop of
\* checkSchedules finds due.
DueIDs(now) ==
    {id \in DOMAIN scanPolicies : scanPolicies[id].Enabled /\ IsDue(scanPolicies[id], now)}

\* The orders in which the SELECT, which has no ORDER BY, may return them.
OrdersOf(ids) ==
    {order \in [1..Cardinality(ids) -> ids] : \A i, j \in DOMAIN order : i # j => order[i] # order[j]}

\* s.db.UpdatePolicyRunTime(p.ID, now, next) for every due policy of the loop.
RECURSIVE RunTimesUpdated(_, _, _)
RunTimesUpdated(table, order, now) ==
    IF order = <<>> THEN table
    ELSE RunTimesUpdated(
            UpdatePolicyRunTime(table, Head(order), now, NextRun(table[Head(order)], now)),
            Tail(order), now)

\* Mutant: triggerPolicy is called, not started as a goroutine: the loop
\* goes on when the enumeration of the earlier triggers has ended.
LaunchReadyAfterEarlier(ds) ==
    \A d \in 1..Len(ds) : ds[d].pc \in {"done", "returned", "bad_filter", "crashed"}

\* go s.triggerPolicy(p): the statement starts the goroutine and is done; it
\* waits for nothing the earlier triggers do.
LaunchReady(ds) == TRUE

\* One tick of runTicker: checkSchedules over the enabled policies.  The
\* select statement of runTicker may take the ticker.C case also when s.quit
\* is closed, as long as the goroutine has not returned.
CheckSchedules ==
    /\ started
    /\ tickers > 0
    /\ ticks < MaxTicks
    /\ ticks' = ticks + 1
    /\ Len(dispatch) + Cardinality(DueIDs(clock)) <= MaxTriggers
    /\ LaunchReady(dispatch)
    /\ \E order \in OrdersOf(DueIDs(clock)) :
         /\ scanPolicies' = RunTimesUpdated(scanPolicies, order, clock)
         /\ dispatch' = dispatch \o
                [k \in 1..Len(order) |-> NewDispatch(scanPolicies[order[k]], clock, ticks')]
    /\ UNCHANGED <<started, clock, jobChan, workers, vulnScans, received, lastSaved>>
    /\ UNCHANGED <<lifeVars, jobVars>>
    /\ UNCHANGED <<apiVars, retVars>>

-----------------------------------------------------------------------------
(* Scan scheduler: triggerPolicy                                            *)

\* The repositories the client of a dispatch lists.
DispatchRepos(dr) == ReposOf(dr.policy.RegistryID)

\* p.FilterRepos is empty, or regexp.Compile(p.FilterRepos) returns no error.
FilterCompiles(p) == p.FilterRepos = "" \/ Compiles(p.FilterRepos)

\* if filterRe != nil && !filterRe.MatchString(repoName) { continue }
SkippedByFilter(dr) ==
    /\ dr.policy.FilterRepos # ""
    /\ ~MatchString(dr.policy.FilterRepos, DispatchRepos(dr)[dr.repo].Name)

\* GetRegistry and ListRepositories; a failure of either returns.  Then the
\* filter is compiled: on an error of regexp.Compile the function logs
\* 'Invalid filter regex' and returns.
DispatchStart(d) ==
    /\ dispatch[d].pc = "start"
    /\ \E outcome \in {"ok", "no_registry", "list_repos_err"} :
         dispatch' = [dispatch EXCEPT
            ![d].pc = IF outcome # "ok" THEN "returned"
                      ELSE IF ~FilterCompiles(dispatch[d].policy) THEN "bad_filter"
                      ELSE "list_tags",
            ![d].repo = IF outcome = "ok" /\ FilterCompiles(dispatch[d].policy) THEN 1 ELSE 0]
    /\ UNCHANGED <<started, clock, scanPolicies, jobChan, workers, vulnScans, received, ticks, lastSaved>>
    /\ UNCHANGED <<lifeVars, jobVars>>
    /\ UNCHANGED <<apiVars, retVars>>

\* The position after repository r is finished or skipped.
NextRepo(dr, r) ==
    IF r < Len(DispatchRepos(dr))
    THEN [dr EXCEPT !.pc = "list_tags", !.repo = r + 1, !.tag = 0]
    ELSE [dr EXCEPT !.pc = "done", !.repo = 0, !.tag = 0]

\* Mutant: an error of ListTags ends the enumeration.
AfterTagsErrorReturn(dr) == [dr EXCEPT !.pc = "done", !.repo = 0, !.tag = 0]

\* tags, err := client.ListTags(repoName); if err != nil { continue }
AfterTagsError(dr) == NextRepo(dr, dr.repo)

\* The filter's continue, or: tags, err := client.ListTags(repoName);
\* if err != nil { continue }
DispatchListTags(d) ==
    /\ dispatch[d].pc = "list_tags"
    /\ \E ok \in (IF SkippedByFilter(dispatch[d]) THEN {FALSE} ELSE BOOLEAN) :
         dispatch' = [dispatch EXCEPT ![d] =
            IF SkippedByFilter(@) THEN NextRepo(@, @.repo)
            ELSE IF ~ok THEN AfterTagsError(@)
            ELSE IF Len(DispatchRepos(@)[@.repo].Tags) > 0
            THEN [@ EXCEPT !.pc = "enqueue", !.tag = 1]
            ELSE NextRepo(@, @.repo)]
    /\ UNCHANGED <<started, clock, scanPolicies, jobChan, workers, vulnScans, received, ticks, lastSaved>>
    /\ UNCHANGED <<lifeVars, jobVars>>
    /\ UNCHANGED <<apiVars, retVars>>

ScanJob(dr) ==
    [RegistryURL |-> RegistryOf(dr.policy.RegistryID).URL,
     RegistryID |-> RegistryOf(dr.policy.RegistryID).ID,
     Repo |-> DispatchRepos(dr)[dr.repo].Name, Tag |-> DispatchRepos(dr)[dr.repo].Tags[dr.tag]]

\* The position after the select statement for tag dr.tag.
NextTag(dr) ==
    IF dr.tag < Len(DispatchRepos(dr)[dr.repo].Tags)
    THEN [dr EXCEPT !.tag = dr.tag + 1]
    ELSE NextRepo(dr, dr.repo)

\* count++ of the send case.
CountAfterSend(n) == n + 1

\* Mutant: the dropped job is counted as queued.
CountAfterTimeoutCounted(n) == n + 1

\* count after the time.After case: unchanged.
CountAfterTimeout(n) == n

\* The channel has room for a send to proceed.
HasRoom(q) == Len(q) < chanCap

\* case s.jobChan <- ScanJob{...}: count++
EnqueueSend(d) ==
    /\ dispatch[d].pc = "enqueue"
    /\ ~chanClosed
    /\ HasRoom(jobChan)
    /\ jobChan' = Append(jobChan, ScanJob(dispatch[d]))
    /\ chanSeqs' = Append(chanSeqs, Len(recvCount) + 1)
    /\ recvCount' = Append(recvCount, 0)
    /\ dispatch' = [dispatch EXCEPT ![d] = NextTag([@ EXCEPT !.count = CountAfterSend(@)])]
    /\ UNCHANGED <<started, clock, scanPolicies, workers, vulnScans, received, ticks, lastSaved>>
    /\ UNCHANGED <<lifeVars, saveErrs, chanCap>>
    /\ UNCHANGED <<apiVars, retVars>>

\* The same select statement once Stop() has closed s.jobChan: a send on a
\* closed channel panics, whether the goroutine reaches the select after the
\* close or was blocked in it; triggerPolicy looks at neither s.quit nor
\* recover().
EnqueueOnClosed(d) ==
    /\ dispatch[d].pc = "enqueue"
    /\ chanClosed
    /\ Crash

\* case <-time.After(2 * time.Second): the channel stayed full for 2 s.
EnqueueTimeout(d) ==
    /\ dispatch[d].pc = "enqueue"
    /\ ~HasRoom(jobChan)
    /\ dispatch' = [dispatch EXCEPT ![d] = NextTag([@ EXCEPT !.count = CountAfterTimeout(@)])]
    /\ UNCHANGED <<started, clock, scanPolicies, jobChan, workers, vulnScans, received, ticks, lastSaved>>
    /\ UNCHANGED <<lifeVars, jobVars>>
    /\ UNCHANGED <<apiVars, retVars>>

-----------------------------------------------------------------------------
(* Scan store: DB.SaveScan                                                  *)

ScanKey(s) == [RegistryID |-> s.RegistryID, Repository |-> s.Repository, Tag |-> s.Tag]

\* Row ids matching SELECT id FROM vuln_scans WHERE registry_id=? AND
\* repository=? AND tag=?
SelectScanIds(s) == {i \in 1..Len(vulnScans) : ScanKey(vulnScans[i]) = ScanKey(s)}

\* UPDATE vuln_scans SET ... WHERE id=?  /  INSERT INTO vuln_scans ...
SaveScanExec(table, found, s) ==
    IF found # 0 THEN [table EXCEPT ![found] = s] ELSE Append(table, s)

-----------------------------------------------------------------------------
(* Scan scheduler: worker                                                   *)

\* Mutant: the receive leaves the job in the channel.
DequeuePeek(q) == q

\* What a receive leaves in the channel.
Dequeue(q) == Tail(q)

\* Mutant: the receive hands out the job sent last.
FrontNewest(q) == q[Len(q)]

\* The element a receive hands out: a channel's buffer is a queue, the
\* receive takes the element sent first.
Front(q) == Head(q)

\* for job := range s.jobChan, and the record built for it.  A closed channel
\* still hands out what it buffers.
WorkerReceive(w) ==
    /\ started
    /\ workers[w].pc = "idle"
    /\ jobChan # <<>>
    /\ LET job == Front(jobChan)
       IN  workers' = [workers EXCEPT ![w] =
              [pc |-> "save1_select", job |-> job, found |-> 0,
               scan |-> [RegistryID |-> job.RegistryID, Repository |-> job.Repo,
                         Tag |-> job.Tag, Status |-> "scanning",
                         Report |-> "", Summary |-> ""]]]
    /\ jobChan' = Dequeue(jobChan)
    /\ chanSeqs' = Dequeue(chanSeqs)
    /\ recvCount' = [recvCount EXCEPT ![Front(chanSeqs)] = @ + 1]
    /\ received' = received + 1
    /\ UNCHANGED <<started, clock, scanPolicies, dispatch, vulnScans, ticks, lastSaved>>
    /\ UNCHANGED <<lifeVars, saveErrs, chanCap>>
    /\ UNCHANGED <<apiVars, retVars>>

\* for job := range s.jobChan ends when the channel is closed and empty; the
\* deferred s.wg.Done() runs.
WorkerExit(w) ==
    /\ workers[w].pc = "idle"
    /\ chanClosed
    /\ jobChan = <<>>
    /\ workers' = [workers EXCEPT ![w].pc = "exited"]
    /\ UNCHANGED <<started, clock, scanPolicies, dispatch, jobChan, vulnScans, received, ticks, lastSaved>>
    /\ UNCHANGED <<lifeVars, jobVars>>
    /\ UNCHANGED <<apiVars, retVars>>

\* SaveScan, first statement: QueryRow(SELECT id ...).Scan(&id).  Without
\* ORDER BY any matching row may be the one returned; none gives ErrNoRows.
WorkerSaveSelect(w) ==
    /\ workers[w].pc \in {"save1_select", "save2_select"}
    /\ LET ids == SelectScanIds(workers[w].scan)
       IN  \E f \in (IF ids = {} THEN {0} ELSE ids) :
              workers' = [workers EXCEPT ![w].found = f,
                             ![w].pc = IF @ = "save1_select" THEN "save1_exec" ELSE "save2_exec"]
    /\ UNCHANGED <<started, clock, scanPolicies, dispatch, jobChan, vulnScans, received, ticks, lastSaved>>
    /\ UNCHANGED <<lifeVars, jobVars>>
    /\ UNCHANGED <<apiVars, retVars>>

\* SaveScan, second statement: the UPDATE or the INSERT.
WorkerSaveExec(w) ==
    /\ workers[w].pc \in {"save1_exec", "save2_exec"}
    /\ vulnScans' = SaveScanExec(vulnScans, workers[w].found, workers[w].scan)
    /\ workers' = [workers EXCEPT ![w] =
          IF @.pc = "save1_exec" THEN [@ EXCEPT !.pc = "scan", !.found = 0] ELSE IdleWorker]
    /\ lastSaved' = [lastSaved EXCEPT ![ScanKey(workers[w].scan)] = {workers[w].scan}]
    /\ UNCHANGED <<started, clock, scanPolicies, dispatch, jobChan, received, ticks>>
    /\ UNCHANGED <<lifeVars, jobVars>>
    /\ UNCHANGED <<apiVars, retVars>>

\* Mutant: the status is 'completed' whatever the scanner returned.
ScanResultAlwaysCompleted(scan, ok) ==
    IF ok
    THEN [scan EXCEPT !.Status = "completed", !.Report = "trivy report",
                      !.Summary = "trivy summary"]
    ELSE [scan EXCEPT !.Status = "completed", !.Report = "{\"error\": \"scan failed\"}"]

\* The record after scanner.ScanImage returned: err == nil sets Status
\* 'completed', Report and Summary; an error sets Status 'failed' and the
\* Report to {"error": "<the error's text>"}.
ScanResult(scan, ok) ==
    IF ok
    THEN [scan EXCEPT !.Status = "completed", !.Report = "trivy report",
                      !.Summary = "trivy summary"]
    ELSE [scan EXCEPT !.Status = "failed", !.Report = "{\"error\": \"scan failed\"}"]

\* scanner.ScanImage(job.RegistryURL, job.Repo, job.Tag) and the status set.
WorkerScan(w) ==
    /\ workers[w].pc = "scan"
    /\ \E ok \in BOOLEAN :
         workers' = [workers EXCEPT ![w].pc = "save2_select",
                                    ![w].scan = ScanResult(@, ok)]
    /\ UNCHANGED <<started, clock, scanPolicies, dispatch, jobChan, vulnScans, received, ticks, lastSaved>>
    /\ UNCHANGED <<lifeVars, jobVars>>
    /\ UNCHANGED <<apiVars, retVars>>

\* SaveScan calls of the workers that return an error, in the model.
MaxSaveErrs == 2

\* Mutant: a worker whose SaveScan failed returns.
AfterSaveErrorReturn(wr) == [IdleWorker EXCEPT !.pc = "exited"]

\* if err := s.db.SaveScan(scan); err != nil { log.Printf(...); continue }
\* for the first SaveScan; the error of the second is logged and the loop
\* body ends.  Either way the worker is at the head of its loop again.
AfterSaveError(wr) == IdleWorker

\* SaveScan returns an error, from the SELECT or from the UPDATE / INSERT:
\* the failing statement has written nothing.
WorkerSaveFailed(w) ==
    /\ workers[w].pc \in {"save1_select", "save1_exec", "save2_select", "save2_exec"}
    /\ saveErrs < MaxSaveErrs
    /\ saveErrs' = saveErrs + 1
    /\ workers' = [workers EXCEPT ![w] = AfterSaveError(@)]
    /\ UNCHANGED <<started, clock, scanPolicies, dispatch, jobChan, vulnScans, received, ticks, lastSaved>>
    /\ UNCHANGED <<lifeVars, chanSeqs, recvCount, chanCap>>
    /\ UNCHANGED <<apiVars, retVars>>

-----------------------------------------------------------------------------
(* Scan API: handlers.TriggerScan and mergeScanData                         *)

\* req.Scanner of the two requests.
Scanners == {"trivy", "osv"}

\* The image both requests name.
ApiImage == [RegistryID |-> ScanRegistry.ID, Repository |-> "library/app", Tag |-> "latest"]

\* The text of a report or summary column: the empty string, a JSON document
\* without scanner keys (text), or a JSON object keyed by scanner name (data,
\* a set of <<key, value>> pairs; the empty set is "{}").
EmptyDoc == [kind |-> "empty", text |-> "", data |-> {}]
RawDoc(v) == [kind |-> "raw", text |-> v, data |-> {}]
WrappedDoc(m) == [kind |-> "wrapped", text |-> "", data |-> m]

\* A document as the json.RawMessage stored under a key.
DocText(doc) == IF doc.kind = "raw" THEN doc.text ELSE "{}"

\* mergeScanData(originalJSON, key, newJSON)
MergeScanData(original, key, new) ==
    LET hasScannerKey == \E pr \in original.data : pr[1] \in {"trivy", "osv"}
        data == CASE original.kind = "empty" -> {}
                  [] original.kind = "wrapped" /\ hasScannerKey -> original.data
                  [] OTHER -> {<<"trivy", DocText(original)>>}
    IN  WrappedDoc(IF new # ""
                   THEN {pr \in data : pr[1] # key} \cup {<<key, new>>}
                   ELSE data)

\* What scanner.ScanImage / scanner.ScanImageOSV return for the image.
ScannerReport(sc) == sc \o " report"
ScannerSummary(sc) == sc \o " summary"

IdleRequest ==
    [pc |-> "idle", ok |-> FALSE, existingReport |-> EmptyDoc, existingSummary |-> EmptyDoc]

\* db.SaveScan(s) as one step: the id the SELECT finds (0 for ErrNoRows).
FoundIds(s) == IF SelectScanIds(s) = {} THEN {0} ELSE SelectScanIds(s)

\* The record TriggerScan creates: Status 'scanning', Report and Summary empty.
ScanningRecord ==
    [RegistryID |-> ApiImage.RegistryID, Repository |-> ApiImage.Repository,
     Tag |-> ApiImage.Tag, Status |-> "scanning", Report |-> EmptyDoc, Summary |-> EmptyDoc]

\* TriggerScan up to its response: the scan record is saved, which for an
\* existing row is UPDATE ... SET status=?, summary=?, report=?, and the
\* goroutine is started.  A scanner is requested again only after its earlier
\* request has finished.
TriggerScan(sc) ==
    /\ apiScan[sc].pc \in {"idle", "done"}
    /\ \E f \in FoundIds(ScanningRecord) :
         vulnScans' = SaveScanExec(vulnScans, f, ScanningRecord)
    /\ apiScan' = [apiScan EXCEPT ![sc] = [IdleRequest EXCEPT !.pc = "scanning"]]
    /\ UNCHANGED <<started, clock, scanPolicies, dispatch, jobChan, workers, received, ticks,
                   lastSaved, lifeVars, jobVars, edits, retApiVars>>
    /\ UNCHANGED retVars

\* The goroutine: scanner.ScanImageOSV or scanner.ScanImage returns.
ApiScanImage(sc) ==
    /\ apiScan[sc].pc = "scanning"
    /\ \E ok \in BOOLEAN : apiScan' = [apiScan EXCEPT ![sc].pc = "get_existing", ![sc].ok = ok]
    /\ UNCHANGED <<started, clock, scanPolicies, dispatch, jobChan, workers, vulnScans, received,
                   ticks, lastSaved, lifeVars, jobVars, edits, retApiVars>>
    /\ UNCHANGED retVars

\* existing, errGet := h.db.GetScan(...): the row's report and summary, or
\* empty strings when there is no row.
ApiGetExisting(sc) ==
    /\ apiScan[sc].pc = "get_existing"
    /\ \E f \in FoundIds(ScanningRecord) :
         apiScan' = [apiScan EXCEPT
            ![sc].pc = "save",
            ![sc].existingReport = IF f = 0 THEN EmptyDoc ELSE vulnScans[f].Report,
            ![sc].existingSummary = IF f = 0 THEN EmptyDoc ELSE vulnScans[f].Summary]
    /\ UNCHANGED <<started, clock, scanPolicies, dispatch, jobChan, workers, vulnScans, received,
                   ticks, lastSaved, lifeVars, jobVars, edits, retApiVars>>
    /\ UNCHANGED retVars

\* The record the goroutine saves: the scanner's result, or its error, merged
\* into what GetScan returned.
ResultRecord(sc) ==
    LET r == apiScan[sc]
    IN  IF r.ok
        THEN [ScanningRecord EXCEPT
                !.Status = "completed",
                !.Report = MergeScanData(r.existingReport, sc, ScannerReport(sc)),
                !.Summary = MergeScanData(r.existingSummary, sc, ScannerSummary(sc))]
        ELSE [ScanningRecord EXCEPT
                !.Status = IF r.existingReport \notin {EmptyDoc, WrappedDoc({})}
                           THEN "completed" ELSE "failed",
                !.Report = MergeScanData(r.existingReport, sc, "{\"error\": \"scan failed\"}"),
                !.Summary = MergeScanData(r.existingSummary, sc, "{\"Unknown\":0}")]

\* h.db.SaveScan(s) of the goroutine.
ApiSaveResult(sc) ==
    /\ apiScan[sc].pc = "save"
    /\ \E f \in FoundIds(ScanningRecord) :
         vulnScans' = SaveScanExec(vulnScans, f, ResultRecord(sc))
    /\ apiScan' = [apiScan EXCEPT ![sc].pc = "done"]
    /\ UNCHANGED <<started, clock, scanPolicies, dispatch, jobChan, workers, received, ticks,
                   lastSaved, lifeVars, jobVars, edits, retApiVars>>
    /\ UNCHANGED retVars

-----------------------------------------------------------------------------
(* Scan API: handlers.SaveScanPolicy                                        *)

\* SaveScanPolicy requests served in the model.
MaxEdits == 2

\* The row of registry regID in scan_policies (registry_id is UNIQUE).
PolicyRowsOf(table, regID) == {id \in DOMAIN table : table[id].RegistryID = regID}

\* The models.ScanPolicy a request body decodes to.  The web UI sends
\* registry_id, enabled, interval_hours and the filters, so next_run_at and
\* last_run_at decode to the zero time; a client that sends back what
\* GetScanPolicy returned carries the next_run_at it read.
PolicyRequests(regID) ==
    [Enabled : BOOLEAN,
     IntervalHours : {2},
     FilterRepos : {"^library/"},
     NextRunAt : {ZeroTime} \cup {scanPolicies[id].NextRunAt : id \in PolicyRowsOf(scanPolicies, regID)},
     LastRunAt : {ZeroTime}]

\* Mutant: a plain INSERT, as if registry_id were not UNIQUE.
SaveScanPolicyInsertOnly(table, regID, req) ==
    LET newId == Cardinality(DOMAIN table) + 1
    IN  table @@ (newId :> [ID |-> newId, RegistryID |-> regID, Enabled |-> req.Enabled,
                            IntervalHours |-> req.IntervalHours,
                            NextRunAt |-> req.NextRunAt, LastRunAt |-> req.LastRunAt,
                            FilterRepos |-> req.FilterRepos])

\* db.SaveScanPolicy: INSERT ... ON CONFLICT(registry_id) DO UPDATE SET
\* enabled, interval_hours, next_run_at, filter_repos, filter_tags to the
\* values of the request; last_run_at and id stay.  The id of a new row is the
\* AUTOINCREMENT value.
SaveScanPolicyExec(table, regID, req) ==
    IF PolicyRowsOf(table, regID) # {}
    THEN [id \in DOMAIN table |->
            IF table[id].RegistryID = regID
            THEN [table[id] EXCEPT !.Enabled = req.Enabled,
                                   !.IntervalHours = req.IntervalHours,
                                   !.NextRunAt = req.NextRunAt,
                                   !.FilterRepos = req.FilterRepos]
            ELSE table[id]]
    ELSE LET newId == Cardinality(DOMAIN table) + 1
         IN  table @@ (newId :> [ID |-> newId, RegistryID |-> regID, Enabled |-> req.Enabled,
                                 IntervalHours |-> req.IntervalHours,
                                 NextRunAt |-> req.NextRunAt, LastRunAt |-> req.LastRunAt,
                                 FilterRepos |-> req.FilterRepos])

\* Handler.SaveScanPolicy for registry regID: p.RegistryID = id, then
\* h.db.SaveScanPolicy(&p).
SaveScanPolicy(regID) ==
    /\ edits < MaxEdits
    /\ edits' = edits + 1
    /\ \E req \in PolicyRequests(regID) :
         scanPolicies' = SaveScanPolicyExec(scanPolicies, regID, req)
    /\ UNCHANGED <<started, clock, dispatch, jobChan, workers, vulnScans, received, ticks,
                   lastSaved, lifeVars, jobVars, apiScan, retApiVars>>
    /\ UNCHANGED retVars

-----------------------------------------------------------------------------
(* Specifications                                                           *)

\* The scheduler after NewScheduler, not started, and an empty scan store.
SchedulerOff ==
    /\ started = FALSE
    /\ clock = 1
    /\ dispatch = <<>>
    /\ jobChan = <<>>
    /\ workers = [w \in WorkerIDs |-> [IdleWorker EXCEPT !.pc = "off"]]
    /\ vulnScans = <<>>
    /\ received = 0
    /\ ticks = 0
    /\ lastSaved = [k \in ScanKeys |-> {}]
    /\ quitClosed = FALSE
    /\ chanClosed = FALSE
    /\ tickers = 0
    /\ stopPc = "none"
    /\ panicked = FALSE
    /\ chanSeqs = <<>>
    /\ recvCount = <<>>
    /\ saveErrs = 0
    /\ chanCap = QueueCap
    /\ apiScan = [sc \in Scanners |-> IdleRequest]
    /\ edits = 0

\* No retention policy is stored and no RunRetention request was made.
IdleRetRequest == [pc |-> "idle", dryRunStr |-> "", status |-> 0]
RetApiIdle ==
    /\ retPolicies = <<>>
    /\ retApi = IdleRetRequest

\* The scheduler is off and the APIs have served nothing.
SchedIdle == SchedulerOff /\ RetApiIdle

\* No fetch goroutine exists; the fetch phase is taken as one step.
NoFetchers ==
    /\ fetchers = <<>>
    /\ sem = 0

\* processRepository called for Repositories[1], nothing done yet.
InFirstRepository ==
    /\ rpc = "fetch"
    /\ images = <<>>
    /\ decisions = <<>>
    /\ keptDigests = {}
    /\ logs = <<>>
    /\ deleteCalls = <<>>
    /\ fetchErrs = {}
    /\ runPc = "in_repo"
    /\ repoIdx = 1
    /\ allLogs = <<>>
    /\ repoStatus = [r \in RepoIDs |-> "pending"]
    /\ NoFetchers

\* The retention engine before a run.
RetIdle ==
    /\ policy = [KeepLastCount |-> 0, KeepDays |-> 0, DryRun |-> TRUE, ExcludeTags |-> "",
                 FilterRepos |-> "", ExcludeRepos |-> ""]
    /\ repoTags = [t \in TagNames |-> [Digest |-> "sha256:aa", Created |-> Now - 23]]
    /\ InFirstRepository

SchedInit ==
    /\ SchedIdle
    /\ scanPolicies \in [PolicyIDs -> [ID : PolicyIDs,
                                       RegistryID : {ScanRegistry.ID},
                                       Enabled : BOOLEAN,
                                       IntervalHours : {-1, 0, 1},
                                       NextRunAt : {ZeroTime, 1},
                                       LastRunAt : {ZeroTime},
                                       FilterRepos : {""}]]
    /\ callsLeft = 1
    /\ RetIdle

SchedNext ==
    \/ Start
    \/ AdvanceClock
    \/ CheckSchedules
    \/ \E d \in 1..Len(dispatch) : DispatchStart(d)
    \/ \E d \in 1..Len(dispatch) : DispatchListTags(d)
    \/ \E d \in 1..Len(dispatch) : EnqueueSend(d)
    \/ \E d \in 1..Len(dispatch) : EnqueueTimeout(d)
    \/ \E w \in WorkerIDs : WorkerReceive(w)
    \/ \E w \in WorkerIDs : WorkerSaveSelect(w)
    \/ \E w \in WorkerIDs : WorkerSaveExec(w)
    \/ \E w \in WorkerIDs : WorkerScan(w)

\* The scheduler as cmd/server runs it: one Start(), and no Stop() before the
\* process ends.
SpecScheduler == SchedInit /\ [][SchedNext]_vars

\* The scan API serving requests of both scanners for one image, in any order
\* and overlap, starting on an empty scan store.
ApiInit ==
    /\ SchedIdle
    /\ callsLeft = 0
    /\ scanPolicies = [id \in PolicyIDs |->
          [ID |-> id, RegistryID |-> ScanRegistry.ID, Enabled |-> FALSE, IntervalHours |-> 24,
           NextRunAt |-> ZeroTime, LastRunAt |-> ZeroTime, FilterRepos |-> ""]]
    /\ RetIdle

ApiNext ==
    \/ \E sc \in Scanners : TriggerScan(sc)
    \/ \E sc \in Scanners : ApiScanImage(sc)
    \/ \E sc \in Scanners : ApiGetExisting(sc)
    \/ \E sc \in Scanners : ApiSaveResult(sc)

SpecScanApi == ApiInit /\ [][ApiNext]_vars

\* The scheduler under any sequence of Start() and Stop() calls, with one enabled
\* policy that is due at the first tick.
LifeInit ==
    /\ SchedIdle
    /\ scanPolicies = [id \in PolicyIDs |->
          [ID |-> id, RegistryID |-> ScanRegistry.ID, Enabled |-> TRUE, IntervalHours |-> 1,
           NextRunAt |-> ZeroTime, LastRunAt |-> ZeroTime, FilterRepos |-> ""]]
    /\ callsLeft = MaxCalls
    /\ RetIdle

LifeNext ==
    \/ Start
    \/ StopCloseQuit
    \/ StopCloseJobChan
    \/ StopReturn
    \/ TickerExit
    \/ CheckSchedules
    \/ \E d \in 1..Len(dispatch) : DispatchStart(d)
    \/ \E d \in 1..Len(dispatch) : DispatchListTags(d)
    \/ \E d \in 1..Len(dispatch) : EnqueueSend(d)
    \/ \E d \in 1..Len(dispatch) : EnqueueTimeout(d)
    \/ \E d \in 1..Len(dispatch) : EnqueueOnClosed(d)
    \/ \E w \in WorkerIDs : WorkerReceive(w)
    \/ \E w \in WorkerIDs : WorkerExit(w)
    \/ \E w \in WorkerIDs : WorkerSaveSelect(w)
    \/ \E w \in WorkerIDs : WorkerSaveExec(w)
    \/ \E w \in WorkerIDs : WorkerScan(w)

SpecLifecycle == LifeInit /\ [][LifeNext]_vars

\* Scheduling of the goroutines: the Go scheduler runs every runnable
\* goroutine, every scanner invocation and store call returns, and a blocked
\* select takes its quit case once s.quit is closed.
LifeFairness ==
    /\ WF_vars(StopCloseJobChan)
    /\ WF_vars(StopReturn)
    /\ WF_vars(TickerExit)
    /\ \A w \in WorkerIDs :
         /\ WF_vars(WorkerReceive(w))
         /\ WF_vars(WorkerExit(w))
         /\ WF_vars(WorkerSaveSelect(w))
         /\ WF_vars(WorkerSaveExec(w))
         /\ WF_vars(WorkerScan(w))

SpecLifecycleFair == LifeInit /\ [][LifeNext]_vars /\ LifeFairness

\* The scheduler right after Start() has returned, with an empty scan store.
StartedScheduler ==
    /\ started = TRUE
    /\ clock = 1
    /\ dispatch = <<>>
    /\ jobChan = <<>>
    /\ workers = [w \in WorkerIDs |-> IF w < NumWorkers THEN IdleWorker
                                      ELSE [IdleWorker EXCEPT !.pc = "off"]]
    /\ vulnScans = <<>>
    /\ received = 0
    /\ ticks = 0
    /\ lastSaved = [k \in ScanKeys |-> {}]
    /\ quitClosed = FALSE
    /\ chanClosed = FALSE
    /\ tickers = 1
    /\ stopPc = "none"
    /\ panicked = FALSE
    /\ chanSeqs = <<>>
    /\ recvCount = <<>>
    /\ saveErrs = 0
    /\ apiScan = [sc \in Scanners |-> IdleRequest]
    /\ edits = 0
    /\ RetApiIdle

\* The same, with a job channel of QueueCap slots.
AfterStart == StartedScheduler /\ chanCap = QueueCap

\* The scheduler as cmd/server runs it, right after Start() has returned: two
\* idle workers and the ticker, one enabled policy that is due at the first
\* tick, and the deferred Stop() still to come.  The store may fail.
WorkInit ==
    /\ AfterStart
    /\ callsLeft = 1
    /\ scanPolicies = [id \in PolicyIDs |->
          [ID |-> id, RegistryID |-> ScanRegistry.ID, Enabled |-> TRUE, IntervalHours |-> 1,
           NextRunAt |-> ZeroTime, LastRunAt |-> ZeroTime, FilterRepos |-> ""]]
    /\ RetIdle

WorkNext ==
    \/ StopCloseQuit
    \/ StopCloseJobChan
    \/ StopReturn
    \/ TickerExit
    \/ CheckSchedules
    \/ \E d \in 1..Len(dispatch) : DispatchStart(d)
    \/ \E d \in 1..Len(dispatch) : DispatchListTags(d)
    \/ \E d \in 1..Len(dispatch) : EnqueueSend(d)
    \/ \E d \in 1..Len(dispatch) : EnqueueTimeout(d)
    \/ \E d \in 1..Len(dispatch) : EnqueueOnClosed(d)
    \/ \E w \in WorkerIDs : WorkerReceive(w)
    \/ \E w \in WorkerIDs : WorkerExit(w)
    \/ \E w \in WorkerIDs : WorkerSaveSelect(w)
    \/ \E w \in WorkerIDs : WorkerSaveExec(w)
    \/ \E w \in WorkerIDs : WorkerSaveFailed(w)
    \/ \E w \in WorkerIDs : WorkerScan(w)

SpecWorkers == WorkInit /\ [][WorkNext]_vars

\* The rows of scan_policies of the registry and of the mirror.
RegistryPolicies ==
    [ID : {1}, RegistryID : {ScanRegistry.ID}, Enabled : BOOLEAN, IntervalHours : {0, 1},
     NextRunAt : {ZeroTime, 2}, LastRunAt : {ZeroTime}, FilterRepos : {""}]
MirrorPolicies ==
    [ID : {2}, RegistryID : {MirrorRegistry.ID}, Enabled : {TRUE}, IntervalHours : {1},
     NextRunAt : {ZeroTime, 1}, LastRunAt : {ZeroTime}, FilterRepos : {"", "^library/", "("}]

\* The timer and the policy API on a started scheduler that is not stopped:
\* a policy for the registry, with or without one for the mirror.  The
\* enumerations a tick launches are left where they start; SpecDispatch runs
\* them.
PolicyInit ==
    /\ AfterStart
    /\ callsLeft = 0
    /\ \E p1 \in RegistryPolicies :
         \/ scanPolicies = (1 :> p1)
         \/ \E p2 \in MirrorPolicies : p2.FilterRepos = "" /\ scanPolicies = (1 :> p1) @@ (2 :> p2)
    /\ RetIdle

PolicyNext ==
    \/ AdvanceClock
    \/ CheckSchedules
    \/ \E regID \in {ScanRegistry.ID, MirrorRegistry.ID} : SaveScanPolicy(regID)

SpecPolicies == PolicyInit /\ [][PolicyNext]_vars

\* The timer, the enumerations it launches and the queue on a started
\* scheduler that is not stopped, with a policy for the registry, due at the
\* first tick, and one for the mirror.  The workers take jobs off the queue;
\* what they do with a job is left to SpecScheduler, SpecLifecycle and
\* SpecWorkers.
DispatchInit ==
    /\ AfterStart
    /\ callsLeft = 0
    /\ \E p1 \in RegistryPolicies : \E p2 \in MirrorPolicies :
         /\ p1.Enabled /\ p1.NextRunAt = ZeroTime /\ p1.IntervalHours = 1
         /\ scanPolicies = (1 :> p1) @@ (2 :> p2)
    /\ RetIdle

DispatchNext ==
    \/ AdvanceClock
    \/ CheckSchedules
    \/ \E d \in 1..Len(dispatch) : DispatchStart(d)
    \/ \E d \in 1..Len(dispatch) : DispatchListTags(d)
    \/ \E d \in 1..Len(dispatch) : EnqueueSend(d)
    \/ \E d \in 1..Len(dispatch) : EnqueueTimeout(d)
    \/ \E w \in WorkerIDs : WorkerReceive(w)

SpecDispatch == DispatchInit /\ [][DispatchNext]_vars

\* The queue between two enumerations and the two workers: a started
\* scheduler whose job channel has one slot more than QueueCap, and a policy
\* for the registry and one for the mirror, both due at the first tick.
QueueInit ==
    /\ StartedScheduler
    /\ chanCap = QueueCap + 1
    /\ callsLeft = 0
    /\ \E p1 \in RegistryPolicies : \E p2 \in MirrorPolicies :
         /\ p1.Enabled /\ p1.NextRunAt = ZeroTime /\ p1.IntervalHours = 1
         /\ p2.NextRunAt = ZeroTime /\ p2.FilterRepos = ""
         /\ scanPolicies = (1 :> p1) @@ (2 :> p2)
    /\ RetIdle

QueueNext ==
    \/ CheckSchedules
    \/ \E d \in 1..Len(dispatch) : DispatchStart(d)
    \/ \E d \in 1..Len(dispatch) : DispatchListTags(d)
    \/ \E d \in 1..Len(dispatch) : EnqueueSend(d)
    \/ \E d \in 1..Len(dispatch) : EnqueueTimeout(d)
    \/ \E w \in WorkerIDs : WorkerReceive(w)
    \/ \E w \in WorkerIDs : WorkerSaveSelect(w)
    \/ \E w \in WorkerIDs : WorkerSaveExec(w)
    \/ \E w \in WorkerIDs : WorkerScan(w)

SpecQueue == QueueInit /\ [][QueueNext]_vars

RetInit ==
    /\ policy \in [KeepLastCount : -1..MaxKeepLastCount,
                   KeepDays : -1..MaxKeepDays,
                   DryRun : BOOLEAN,
                   ExcludeTags : ExcludeTagPatterns,
                   FilterRepos : {""},
                   ExcludeRepos : {""}]
    /\ repoTags \in [TagNames -> [Digest : DigestNames, Created : CreatedTimes]]
    /\ InFirstRepository
    /\ SchedIdle
    /\ callsLeft = 0
    /\ scanPolicies = [id \in PolicyIDs |->
          [ID |-> id, RegistryID |-> ScanRegistry.ID, Enabled |-> FALSE, IntervalHours |-> 24,
           NextRunAt |-> ZeroTime, LastRunAt |-> ZeroTime, FilterRepos |-> ""]]

RetNext ==
    \/ FetchDetails
    \/ SortImages
    \/ EvaluateRules
    \/ ExecuteAction
    \/ ReturnLogs

SpecRetention == RetInit /\ [][RetNext]_vars

(***************************************************************************)
(* Retention engine: the fetch goroutines of processRepository              *)

\* sem := make(chan struct{}, 5)
SemCap == 5

\* client.ListTags(repoName) of a repository with more tags than sem has
\* slots, in listing order; the tags listed are those repoTags holds.
FetchTagList == <<"latest", "v1", "v2", "v3", "v4", "v5">>
ListedTags == SelectSeq(FetchTagList, LAMBDA t : t \in DOMAIN repoTags)

\* The registry's answers: it may fail the requests for the creation time of
\* v1 and for the digest of v2, and serves every other request.
CreatedOutcomes(t) == IF t = "v1" THEN BOOLEAN ELSE {TRUE}
DigestOutcomes(t) == IF t = "v2" THEN BOOLEAN ELSE {TRUE}

\* The goroutines of the tag loop, by position in spawn order.
Fetchers == 1..Len(fetchers)
SetPc(g, pc) == [fetchers EXCEPT ![g].pc = pc]

\* for _, tag := range tags { wg.Add(1); go func(t string) {...}(tag.Name) }
SpawnFetcher ==
    /\ rpc = "fetch"
    /\ Len(fetchers) < Len(ListedTags)
    /\ fetchers' = Append(fetchers, [Tag |-> ListedTags[Len(fetchers) + 1], pc |-> "acquire"])
    /\ UNCHANGED <<policy, repoTags, rpc, images, decisions, keptDigests, logs, deleteCalls,
                   fetchErrs, runPc, repoIdx, allLogs, repoStatus, sem>>
    /\ UNCHANGED schedVars

\* Mutant: the send on sem never blocks.
CanSendUnbuffered(n) == TRUE

\* A send on the buffered channel sem proceeds iff the buffer is not full.
CanSend(n) == n < SemCap

\* sem <- struct{}{}
AcquireSlot(g) ==
    /\ fetchers[g].pc = "acquire"
    /\ CanSend(sem)
    /\ sem' = sem + 1
    /\ fetchers' = SetPc(g, "fetching")
    /\ UNCHANGED <<policy, repoTags, rpc, images, decisions, keptDigests, logs, deleteCalls,
                   fetchErrs, runPc, repoIdx, allLogs, repoStatus>>
    /\ UNCHANGED schedVars

\* created, err := client.GetImageCreated(repoName, t); if err != nil { return }
\* digest, err := client.GetDigestForTag(repoName, t); if err != nil { return }
\* The two requests touch nothing the goroutines share and each ends, with a
\* result or an error, within the client's timeout: one step.
FetchTagDetails(g) ==
    /\ fetchers[g].pc = "fetching"
    /\ \E created \in CreatedOutcomes(fetchers[g].Tag), digest \in DigestOutcomes(fetchers[g].Tag) :
         IF created /\ digest
         THEN /\ fetchers' = SetPc(g, "append")
              /\ UNCHANGED fetchErrs
         ELSE /\ fetchers' = SetPc(g, "release")
              /\ fetchErrs' = fetchErrs \cup {<<RepoName, fetchers[g].Tag>>}
    /\ UNCHANGED <<policy, repoTags, rpc, images, decisions, keptDigests, logs, deleteCalls,
                   runPc, repoIdx, allLogs, repoStatus, sem>>
    /\ UNCHANGED schedVars

\* Mutant: an append that raced with another one and overwrote its element.
AppendedOverLast(list, im) ==
    IF list = <<>> THEN <<im>> ELSE [list EXCEPT ![Len(list)] = im]

\* images = append(images, im), alone on the list while it holds mu.
Appended(list, im) == Append(list, im)

\* mu.Lock(); images = append(images, imageInfo{...}); mu.Unlock()
AppendImage(g) ==
    /\ fetchers[g].pc = "append"
    /\ images' = Appended(images, ImageInfo(fetchers[g].Tag))
    /\ fetchers' = SetPc(g, "release")
    /\ UNCHANGED <<policy, repoTags, rpc, decisions, keptDigests, logs, deleteCalls,
                   fetchErrs, runPc, repoIdx, allLogs, repoStatus, sem>>
    /\ UNCHANGED schedVars

\* The goroutine returns and its deferred calls run: <-sem, then wg.Done().
FetcherReturn(g) ==
    /\ fetchers[g].pc = "release"
    /\ sem' = sem - 1
    /\ fetchers' = SetPc(g, "done")
    /\ UNCHANGED <<policy, repoTags, rpc, images, decisions, keptDigests, logs, deleteCalls,
                   fetchErrs, runPc, repoIdx, allLogs, repoStatus>>
    /\ UNCHANGED schedVars

\* wg.Wait() returns once the loop has spawned every goroutine and each has
\* called wg.Done().
WgWait ==
    /\ rpc = "fetch"
    /\ Len(fetchers) = Len(ListedTags)
    /\ \A g \in Fetchers : fetchers[g].pc = "done"
    /\ rpc' = "sort"
    /\ UNCHANGED <<policy, repoTags, images, decisions, keptDigests, logs, deleteCalls,
                   fetchErrs, runVars>>
    /\ UNCHANGED schedVars

\* processRepository has listed one to six tags of the first
\* repository, each with a digest and a creation time of its own.
FetchInit ==
    /\ policy = [KeepLastCount |-> 1, KeepDays |-> 0, DryRun |-> FALSE,
                 ExcludeTags |-> "^latest$", FilterRepos |-> "", ExcludeRepos |-> ""]
    /\ \E n \in 1..Len(FetchTagList) :
         repoTags = [t \in {FetchTagList[i] : i \in 1..n} |->
                        [Digest |-> "sha256:" \o t,
                         Created |-> Now - (CHOOSE i \in 1..n : FetchTagList[i] = t)]]
    /\ InFirstRepository
    /\ SchedIdle
    /\ callsLeft = 0
    /\ scanPolicies = [id \in PolicyIDs |->
          [ID |-> id, RegistryID |-> ScanRegistry.ID, Enabled |-> FALSE, IntervalHours |-> 24,
           NextRunAt |-> ZeroTime, LastRunAt |-> ZeroTime, FilterRepos |-> ""]]

\* The steps of goroutine g.
FetchStep(g) ==
    \/ AcquireSlot(g)
    \/ FetchTagDetails(g)
    \/ AppendImage(g)
    \/ FetcherReturn(g)

FetchNext ==
    \/ SpawnFetcher
    \/ \E g \in Fetchers : AcquireSlot(g)
    \/ \E g \in Fetchers : FetchTagDetails(g)
    \/ \E g \in Fetchers : AppendImage(g)
    \/ \E g \in Fetchers : FetcherReturn(g)
    \/ WgWait

SpecFetch == FetchInit /\ [][FetchNext]_vars

\* The fetch, followed by the sort and the decision pass.
FetchDecideNext ==
    \/ FetchNext
    \/ SortImages
    \/ EvaluateRules

SpecFetchDecide == FetchInit /\ [][FetchDecideNext]_vars

\* The digests of the tags of a repository with tags: v1 has a digest of its
\* own and v2 that of latest, or v2 has the digest of v1.
RunDigests ==
    {[t \in TagNames |-> IF t = "v1" THEN "sha256:bb" ELSE "sha256:aa"],
     [t \in TagNames |-> IF t = "latest" THEN "sha256:aa" ELSE "sha256:bb"]}

\* A whole RunRetention over the repositories of the registry: every
\* repository with tags holds latest (23 h old), v1 (24 h) and v2 (48 h).
RunInit ==
    /\ policy \in [KeepLastCount : {0, 1},
                   KeepDays : {0},
                   DryRun : BOOLEAN,
                   ExcludeTags : RunExcludeTagPatterns,
                   FilterRepos : FilterRepoPatterns,
                   ExcludeRepos : ExcludeRepoPatterns]
    /\ \E digests \in RunDigests :
         repoTags = [t \in TagNames |->
                     [Digest |-> digests[t],
                      Created |-> CASE t = "latest" -> Now - 23
                                    [] t = "v1" -> Now - 24
                                    [] OTHER -> Now - 48]]
    /\ rpc = "idle"
    /\ images = <<>>
    /\ decisions = <<>>
    /\ keptDigests = {}
    /\ logs = <<>>
    /\ deleteCalls = <<>>
    /\ fetchErrs = {}
    /\ runPc = "list_repos"
    /\ repoIdx = 0
    /\ allLogs = <<>>
    /\ repoStatus = [r \in RepoIDs |-> "pending"]
    /\ NoFetchers
    /\ SchedIdle
    /\ callsLeft = 0
    /\ scanPolicies = [id \in PolicyIDs |->
          [ID |-> id, RegistryID |-> ScanRegistry.ID, Enabled |-> FALSE, IntervalHours |-> 24,
           NextRunAt |-> ZeroTime, LastRunAt |-> ZeroTime, FilterRepos |-> ""]]

RunNext ==
    \/ ListRepositories
    \/ SkipRepository
    \/ EnterRepository
    \/ FetchDetails
    \/ SortImages
    \/ EvaluateRules
    \/ ExecuteAction
    \/ ReturnLogs
    \/ AppendRepoLogs
    \/ ReturnAllLogs

SpecRunRetention == RunInit /\ [][RunNext]_vars

------------------------------------------------------------------------------
(* Retention API: handlers.RunRetention                                     *)

\* The registry of the request, and the values of its dry_run parameter.
RetRegistryID == ScanRegistry.ID
DryRunParams == {"", "true", "false", "1"}

\* GetRetentionPolicy on sql.ErrNoRows: the default policy.
DefaultRetentionPolicy ==
    [KeepLastCount |-> 5, KeepDays |-> 0, DryRun |-> TRUE, LastRunAt |-> ZeroTime,
     FilterRepos |-> "", ExcludeRepos |-> "", ExcludeTags |-> "^latest$|^main$|^master$"]

\* db.GetRetentionPolicy(registryID)
GetRetentionPolicy(table, id) ==
    IF id \in DOMAIN table THEN table[id] ELSE DefaultRetentionPolicy

\* if dryRunStr == "true" { policy.DryRun = true }
\* else if dryRunStr == "false" { policy.DryRun = false }
OverrideDryRun(p, dryRunStr) ==
    IF dryRunStr = "true" THEN [p EXCEPT !.DryRun = TRUE]
    ELSE IF dryRunStr = "false" THEN [p EXCEPT !.DryRun = FALSE]
    ELSE p

\* The fields of the policy registry.RunRetention reads.
EnginePolicy(p) ==
    [KeepLastCount |-> p.KeepLastCount, KeepDays |-> p.KeepDays, DryRun |-> p.DryRun,
     ExcludeTags |-> p.ExcludeTags, FilterRepos |-> p.FilterRepos,
     ExcludeRepos |-> p.ExcludeRepos]

\* if !policy.DryRun { h.db.UpdateRetentionLastRun(id) }
WritesLastRun(p) == ~p.DryRun

\* UPDATE retention_policies SET last_run_at = CURRENT_TIMESTAMP
\* WHERE registry_id = ?: it changes the row of the registry, if there is one.
UpdateRetentionLastRun(table, id) ==
    IF id \in DOMAIN table THEN [table EXCEPT ![id].LastRunAt = Now] ELSE table

\* The handler up to the call of registry.RunRetention: it loads the policy,
\* applies the dry_run parameter and loads the registry; a failure of either
\* load answers with an error.
RunRetentionLoad ==
    /\ retApi.pc = "idle"
    /\ \E dryRunStr \in DryRunParams, outcome \in {"ok", "policy_err", "no_registry"} :
         IF outcome = "ok"
         THEN /\ policy' = EnginePolicy(OverrideDryRun(
                               GetRetentionPolicy(retPolicies, RetRegistryID), dryRunStr))
              /\ runPc' = "list_repos"
              /\ retApi' = [pc |-> "running", dryRunStr |-> dryRunStr, status |-> 0]
         ELSE /\ retApi' = [pc |-> "responded", dryRunStr |-> dryRunStr,
                            status |-> IF outcome = "policy_err" THEN 500 ELSE 404]
              /\ UNCHANGED <<policy, runPc>>
    /\ UNCHANGED <<repoTags, rpc, images, decisions, keptDigests, logs, deleteCalls,
                   fetchErrs, repoIdx, allLogs, repoStatus, fetchVars>>
    /\ UNCHANGED <<started, clock, scanPolicies, dispatch, jobChan, workers, vulnScans,
                   received, ticks, lastSaved, lifeVars, jobVars, apiScan, edits, retPolicies>>

\* The handler after registry.RunRetention has returned: an error is answered
\* with status 500; otherwise the timestamp is written unless policy.DryRun,
\* and the logs are sent.
RunRetentionRespond ==
    /\ retApi.pc = "running"
    /\ runPc \in {"returned", "failed"}
    /\ IF runPc = "failed"
       THEN /\ retApi' = [retApi EXCEPT !.pc = "responded", !.status = 500]
            /\ UNCHANGED retPolicies
       ELSE /\ retApi' = [retApi EXCEPT !.pc = "responded", !.status = 200]
            /\ retPolicies' = IF WritesLastRun(policy)
                              THEN UpdateRetentionLastRun(retPolicies, RetRegistryID)
                              ELSE retPolicies
    /\ UNCHANGED retVars
    /\ UNCHANGED <<started, clock, scanPolicies, dispatch, jobChan, workers, vulnScans,
                   received, ticks, lastSaved, lifeVars, jobVars, apiScan, edits>>

\* The rows of retention_policies a registry may have.
RetentionRows ==
    [KeepLastCount : {1}, KeepDays : {0}, DryRun : BOOLEAN, LastRunAt : {ZeroTime, Now - 24},
     FilterRepos : {"", "^library/"}, ExcludeRepos : {""}, ExcludeTags : {""}]

\* One RunRetention request for a registry that has a stored retention policy
\* or none; no run has started.
RetApiInit ==
    /\ \/ retPolicies = <<>>
       \/ \E row \in RetentionRows : retPolicies = (RetRegistryID :> row)
    /\ retApi = IdleRetRequest
    /\ policy = EnginePolicy(DefaultRetentionPolicy)
    /\ \E digests \in RunDigests :
         repoTags = [t \in TagNames |->
                     [Digest |-> digests[t],
                      Created |-> CASE t = "latest" -> Now - 23
                                    [] t = "v1" -> Now - 24
                                    [] OTHER -> Now - 48]]
    /\ rpc = "idle"
    /\ images = <<>>
    /\ decisions = <<>>
    /\ keptDigests = {}
    /\ logs = <<>>
    /\ deleteCalls = <<>>
    /\ fetchErrs = {}
    /\ runPc = "not_called"
    /\ repoIdx = 0
    /\ allLogs = <<>>
    /\ repoStatus = [r \in RepoIDs |-> "pending"]
    /\ NoFetchers
    /\ SchedulerOff
    /\ callsLeft = 0
    /\ scanPolicies = [id \in PolicyIDs |->
          [ID |-> id, RegistryID |-> ScanRegistry.ID, Enabled |-> FALSE, IntervalHours |-> 24,
           NextRunAt |-> ZeroTime, LastRunAt |-> ZeroTime, FilterRepos |-> ""]]

RetApiNext ==
    \/ RunRetentionLoad
    \/ RunNext
    \/ RunRetentionRespond

SpecRetentionApi == RetApiInit /\ [][RetApiNext]_vars


-----------------------------------------------------------------------------
(* Retention engine: properties                                             *)

DeletionActions == {"would_delete", "deleted", "error_delete"}

\* Digest d is the digest of a candidate that pass 1 decided to keep.
KeptCandidateDigest(d) ==
    \E i \in 1..Len(decisions) : decisions[i].keep /\ decisions[i].img.Digest = d

\* Tag name t matches policy.ExcludeTags (the pattern's matches, not the
\* candidate's Protected flag).
MatchesExcludeTags(t) ==
    policy.ExcludeTags # "" /\ MatchString(policy.ExcludeTags, t)

\* C1: DeleteManifest is never issued for a digest that a candidate with
\* shouldKeep = true resolves to, and a candidate that fails every keep rule
\* but shares its digest with a kept candidate is logged 'kept' with reason
\* 'digest shared with retained tag'.
C1_SharedDigestSafety ==
    /\ \A c \in 1..Len(deleteCalls) : ~KeptCandidateDigest(deleteCalls[c].Digest)
    /\ \A k \in 1..Len(logs) :
         (~decisions[k].keep /\ KeptCandidateDigest(decisions[k].img.Digest))
            => /\ logs[k].Action = "kept"
               /\ logs[k].Reason = "digest shared with retained tag"

\* A finished non-dry run in which a rule-failing candidate sorted before the
\* kept candidate sharing its digest, and another candidate was deleted.
C1_Witness ==
    /\ rpc = "done"
    /\ ~policy.DryRun
    /\ Len(deleteCalls) > 0
    /\ \E k, i \in 1..Len(logs) :
         /\ k < i
         /\ ~decisions[k].keep
         /\ decisions[i].keep
         /\ decisions[i].img.Digest = decisions[k].img.Digest
         /\ logs[k].Reason = "digest shared with retained tag"

\* C2: no DeleteManifest of the run targets the digest of a tag of the
\* repository that matches excludeTags, whatever fetches failed.
C2_ProtectedManifestNeverDeleted ==
    \A t \in TagNames :
        MatchesExcludeTags(t) =>
            \A c \in 1..Len(deleteCalls) : deleteCalls[c].Digest # repoTags[t].Digest

\* C3: with dryRun = true no DeleteManifest is issued and every candidate
\* neither kept by a rule nor sharing a digest with a kept one is logged
\* 'would_delete'; no log is 'deleted' or 'error_delete'.
C3_DryRunSideEffectFree ==
    policy.DryRun =>
        /\ deleteCalls = <<>>
        /\ \A k \in 1..Len(logs) :
             /\ logs[k].Action \notin {"deleted", "error_delete"}
             /\ (~decisions[k].keep /\ ~KeptCandidateDigest(decisions[k].img.Digest))
                   => logs[k].Action = "would_delete"

C3_Witness ==
    /\ rpc = "done"
    /\ policy.DryRun
    /\ \E k \in 1..Len(logs) : logs[k].Action = "would_delete"

\* C4: with keepLastCount <= 0 and keepDays <= 0 every processed tag is logged
\* 'kept' with reason 'no policy set' and no DeleteManifest is issued.
C4_FailSafeDefault ==
    (policy.KeepLastCount <= 0 /\ policy.KeepDays <= 0) =>
        /\ deleteCalls = <<>>
        /\ \A k \in 1..Len(logs) :
             logs[k].Action = "kept" /\ logs[k].Reason = "no policy set"
        /\ rpc = "done" => Len(logs) = Len(images)

C4_Witness ==
    /\ rpc = "done"
    /\ policy.KeepLastCount < 0
    /\ policy.KeepDays = 0
    /\ ~policy.DryRun
    /\ Len(logs) = 3

\* The finished run is a keep-last-N run: keepLastCount = N > 0, keepDays = 0
\* and no candidate is protected.
KeepLastOnlyRun ==
    /\ rpc = "done"
    /\ policy.KeepLastCount > 0
    /\ policy.KeepDays = 0
    /\ \A i \in 1..Len(images) : ~MatchesExcludeTags(images[i].Tag)

\* The candidates are in newest-first order and log k is candidate k's.
NewestFirstLogs ==
    /\ Len(logs) = Len(images)
    /\ \A k \in 1..Len(logs) : logs[k].Tag = images[k].Tag
    /\ \A i, j \in 1..Len(images) : i < j => images[i].Created >= images[j].Created

KeptWithinLastN(k) ==
    /\ logs[k].Action = "kept"
    /\ logs[k].Reason = "within last " \o ToString(policy.KeepLastCount) \o " images"

\* C5 as stated: in a keep-last-N run exactly the min(N, M) newest candidates
\* are kept (reason 'within last N images') and all the others are deletion
\* candidates.
C5_KeepLastN_AsStated ==
    KeepLastOnlyRun =>
        /\ NewestFirstLogs
        /\ \A k \in 1..Len(logs) :
             IF k <= policy.KeepLastCount
             THEN KeptWithinLastN(k)
             ELSE logs[k].Action \in DeletionActions

\* C5 as amended: the min(N, M) newest are kept with reason 'within last N
\* images'; each of the others is a deletion candidate unless its digest is the
\* digest of one of those N newest, in which case it is kept with reason
\* 'digest shared with retained tag'.
C5_KeepLastN ==
    KeepLastOnlyRun =>
        /\ NewestFirstLogs
        /\ \A k \in 1..Len(logs) :
             IF k <= policy.KeepLastCount
             THEN KeptWithinLastN(k)
             ELSE IF \E i \in 1..Len(images) :
                        i <= policy.KeepLastCount /\ images[i].Digest = images[k].Digest
                  THEN /\ logs[k].Action = "kept"
                       /\ logs[k].Reason = "digest shared with retained tag"
                  ELSE logs[k].Action \in DeletionActions

\* N = 2 with 3 candidates of which the oldest is deleted, and N = 1 with an
\* older candidate saved by the digest it shares with the newest.
C5_Witness ==
    /\ KeepLastOnlyRun
    /\ Len(logs) = 3
    /\ \/ /\ policy.KeepLastCount = 2
          /\ logs[3].Action = "deleted"
       \/ /\ policy.KeepLastCount = 1
          /\ logs[2].Reason = "digest shared with retained tag"
          /\ logs[3].Action = "deleted"

\* Candidate k is subject to the age rule only: keepDays = K > 0, keep-last-N
\* is off and the tag is not protected.
AgeRuleOnly(k) ==
    /\ policy.KeepDays > 0
    /\ policy.KeepLastCount <= 0
    /\ ~MatchesExcludeTags(images[k].Tag)

\* C6: under the age rule alone a candidate is kept by the rule iff fewer than
\* K whole days (24 h each) have elapsed since its creation: one aged exactly K
\* days is not kept by the rule, and is a deletion candidate unless a kept
\* candidate shares its digest.
C6_AgeRule ==
    \A k \in 1..Len(logs) :
        AgeRuleOnly(k) =>
            IF Now - images[k].Created < policy.KeepDays * 24
            THEN /\ decisions[k].keep
                 /\ logs[k].Action = "kept"
                 /\ logs[k].Reason = "newer than " \o ToString(policy.KeepDays) \o " days"
            ELSE /\ ~decisions[k].keep
                 /\ ~KeptCandidateDigest(images[k].Digest)
                       => logs[k].Action \in DeletionActions

\* K = 1: a candidate aged 23 h is kept and one aged exactly 24 h is deleted.
C6_Witness ==
    /\ rpc = "done"
    /\ policy.KeepDays = 1
    /\ \E k, j \in 1..Len(logs) :
         /\ AgeRuleOnly(k)
         /\ Now - images[k].Created = 23
         /\ logs[k].Action = "kept"
         /\ Now - images[j].Created = 24
         /\ logs[j].Action = "deleted"

\* C7: every processed tag whose name matches excludeTags is logged 'kept' and
\* DeleteManifest is never issued for its digest, for every policy, age and
\* position in the newest-first order.
C7_WhitelistProtection ==
    /\ \A k \in 1..Len(logs) :
         MatchesExcludeTags(logs[k].Tag) => logs[k].Action = "kept"
    /\ rpc \in {"pass2", "done"} =>
         \A i \in 1..Len(images) :
            MatchesExcludeTags(images[i].Tag) =>
               \A c \in 1..Len(deleteCalls) : deleteCalls[c].Digest # images[i].Digest

\* A protected tag that is the oldest candidate, older than keepDays and
\* outside the last N, is kept in a run that deletes another tag.
C7_Witness ==
    /\ rpc = "done"
    /\ policy.KeepLastCount = 1
    /\ policy.KeepDays = 1
    /\ Len(logs) = 3
    /\ MatchesExcludeTags(logs[3].Tag)
    /\ Now - images[3].Created = 48
    /\ logs[3].Reason = "matches whitelist tag"
    /\ logs[2].Action = "deleted"

-----------------------------------------------------------------------------
(* Scan scheduler: properties                                               *)

\* The interval a trigger of policy row p adds: intervalHours, or 24 h when
\* intervalHours <= 0.
EffectiveInterval(p) == IF p.IntervalHours <= 0 THEN 24 ELSE p.IntervalHours

\* The launches of policy id, as indices of dispatch.
TriggersOf(id) == {d \in 1..Len(dispatch) : dispatch[d].policy.ID = id}

RECURSIVE SumCounts(_)
SumCounts(n) == IF n = 0 THEN 0 ELSE dispatch[n].count + SumCounts(n - 1)

\* The step is the time.After case of dispatch d: it leaves the select
\* statement it was blocked in, against a full queue.
TimedOut(d) ==
    /\ dispatch[d].pc = "enqueue"
    /\ Len(jobChan) >= QueueCap
    /\ dispatch'[d] # dispatch[d]

\* C9: the queue never holds more than its capacity; the counters of the
\* dispatches add up to exactly the jobs the queue accepted (those in it plus
\* those received from it); and an enqueue attempt that ends against a full
\* queue leaves the queue and the counter as they were and moves on to the
\* next tag, so the dropped job is not enqueued later.
C9_Backpressure ==
    /\ [](/\ Len(jobChan) <= QueueCap
          /\ SumCounts(Len(dispatch)) = Len(jobChan) + received)
    /\ [][\A d \in 1..Len(dispatch) :
            TimedOut(d) =>
               /\ jobChan' = jobChan
               /\ dispatch'[d].count = dispatch[d].count
               /\ <<dispatch'[d].repo, dispatch'[d].tag>> # <<dispatch[d].repo, dispatch[d].tag>>]_vars

\* A dispatch over two tags finished with one job queued and one dropped: the
\* queue is full and no worker has received anything.
C9_Witness ==
    /\ Len(dispatch) = 1
    /\ dispatch[1].pc = "done"
    /\ dispatch[1].count = 1
    /\ Len(jobChan) = QueueCap
    /\ received = 0

\* C10: for a key that a SaveScan has completed for, exactly one row of
\* vuln_scans has that key and it holds the record of the latest save.
C10_ScanUpsert ==
    \A k \in ScanKeys :
        lastSaved[k] # {} =>
            /\ Cardinality({i \in 1..Len(vulnScans) : ScanKey(vulnScans[i]) = k}) = 1
            /\ \A i \in 1..Len(vulnScans) :
                  ScanKey(vulnScans[i]) = k => vulnScans[i] \in lastSaved[k]

-----------------------------------------------------------------------------
(* Scan scheduler: shutdown and lifecycle properties                        *)

\* Stop() has closed s.quit on a scheduler that was started.
StopCalledOnRunning == started /\ stopPc = "close_jobs"

\* Stop() has returned, no worker is left, and every job the queue accepted
\* was received by a worker, which finished with it.
StopDrained ==
    /\ stopPc = "returned"
    /\ LiveWorkers = {}
    /\ jobChan = <<>>
    /\ \A k \in 1..Len(recvCount) : recvCount[k] = 1

\* C11: after Stop() is called on a running scheduler the timer routine exits,
\* every job buffered in the queue is still processed by a worker, all workers
\* exit and Stop() returns (every scanner invocation and store call returns).
C11_StopDrains ==
    /\ StopCalledOnRunning ~> StopDrained
    /\ StopCalledOnRunning ~> (tickers = 0)

\* The same, for the runs in which no goroutine panics: Stop() returns drained
\* unless the process is gone.
StopDrainsUnlessPanic ==
    /\ StopCalledOnRunning ~> (StopDrained \/ panicked)
    /\ StopCalledOnRunning ~> (tickers = 0)

\* The lifecycle state of the scheduler, read off its goroutines: Stopped when
\* no worker and no timer routine exists, Running while they exist and Stop()
\* has not been called, Draining from close(s.quit) until they are gone.
Phase ==
    IF panicked THEN "Crashed"
    ELSE IF LiveWorkers = {} /\ tickers = 0 THEN "Stopped"
    ELSE IF ~quitClosed THEN "Running"
    ELSE "Draining"

LifecycleSteps ==
    {<<"Stopped", "Running">>, <<"Running", "Draining">>, <<"Draining", "Stopped">>}

\* C12: under any sequence of Start() and Stop() calls the scheduler only moves
\* Stopped -> Running -> Draining -> Stopped, and at every moment at most 2
\* worker routines and at most one timer routine are running.
C12_Lifecycle ==
    /\ [](Cardinality(LiveWorkers) <= NumWorkers /\ tickers <= 1)
    /\ [][Phase' # Phase => <<Phase, Phase'>> \in LifecycleSteps]_vars

-----------------------------------------------------------------------------
(* Retention engine: properties of a whole run                              *)

\* The entries of the returned list for repository name (and tag t).
RunLogsOf(name) == {k \in 1..Len(allLogs) : allLogs[k].Repository = name}
RunLogsOfTag(name, t) == {k \in RunLogsOf(name) : allLogs[k].Tag = t}

\* The DeleteManifest calls issued for repository name.
DeleteCallsOf(name) == {c \in 1..Len(deleteCalls) : deleteCalls[c].Repo = name}

\* Repository r passes policy.FilterRepos and policy.ExcludeRepos.
PassesRepoFilters(r) == ~SkippedByFilters(Repositories[r].Name)

\* Tag t of repository r was listed and both its fetches succeeded.
TagFetched(r, t) ==
    /\ repoStatus[r] = "processed"
    /\ <<Repositories[r].Name, t>> \notin fetchErrs

\* C13: when listing the repositories fails the run returns an error, no log
\* and has issued no DeleteManifest; a repository whose tag listing fails
\* contributes no log and no DeleteManifest, and the run still processes every
\* other repository that passes the filters and logs its fetched tags.
C13_RunFailureSemantics ==
    /\ runPc = "failed" => (allLogs = <<>> /\ logs = <<>> /\ deleteCalls = <<>>)
    /\ \A r \in RepoIDs :
         repoStatus[r] = "list_tags_err" =>
            /\ RunLogsOf(Repositories[r].Name) = {}
            /\ DeleteCallsOf(Repositories[r].Name) = {}
            /\ \A k \in 1..Len(logs) : logs[k].Repository # Repositories[r].Name
    /\ runPc = "returned" =>
         \A r \in RepoIDs :
            PassesRepoFilters(r) =>
               /\ repoStatus[r] \in {"list_tags_err", "no_tags", "processed"}
               /\ Repositories[r].HasTags => repoStatus[r] \in {"list_tags_err", "processed"}
               /\ \A t \in TagNames : TagFetched(r, t) => RunLogsOfTag(Repositories[r].Name, t) # {}

\* A run returned in which the tag listing of library/app failed and
\* library/db was processed: its three tags are logged, one of them deleted.
C13_Witness ==
    /\ runPc = "returned"
    /\ repoStatus[1] = "list_tags_err"
    /\ repoStatus[2] = "processed"
    /\ Cardinality(RunLogsOf("library/db")) = 3
    /\ \E c \in DeleteCallsOf("library/db") : deleteCalls[c].Ok

RetentionActions == {"kept", "would_delete", "deleted", "error_delete"}

\* C14: the list a successful run returns holds exactly one entry for every
\* tag, of every repository passing the filters, whose creation time and digest
\* were both fetched, no entry for any other repository or tag, and every
\* entry's action is one of kept, would_delete, deleted, error_delete.
C14_OneLogPerFetchedTag ==
    runPc = "returned" =>
        /\ \A r \in RepoIDs : \A t \in TagNames :
              Cardinality(RunLogsOfTag(Repositories[r].Name, t)) =
                 IF PassesRepoFilters(r) /\ TagFetched(r, t) THEN 1 ELSE 0
        /\ \A k \in 1..Len(allLogs) :
              /\ \E r \in RepoIDs : allLogs[k].Repository = Repositories[r].Name
              /\ allLogs[k].Tag \in TagNames
              /\ allLogs[k].Action \in RetentionActions

\* A run returned with both library repositories processed, one tag of each
\* dropped by a failed fetch, and the four fetched tags logged.
C14_Witness ==
    /\ runPc = "returned"
    /\ repoStatus[1] = "processed"
    /\ repoStatus[2] = "processed"
    /\ <<"library/app", "v2">> \in fetchErrs
    /\ <<"library/db", "latest">> \in fetchErrs
    /\ Cardinality(fetchErrs) = 2
    /\ Len(allLogs) = 4
    /\ \E k \in 1..Len(allLogs) : allLogs[k].Action = "deleted"

-----------------------------------------------------------------------------
(* Scan scheduler: the job queue under shutdown                             *)

\* C15: no triggerPolicy routine is at its send on the job queue once Stop()
\* has closed the queue, in any interleaving of Stop() with the timer routine
\* and the enumerations it launched; such a send panics.
C15_NoEnqueueOnClosed ==
    \A d \in 1..Len(dispatch) : chanClosed => dispatch[d].pc # "enqueue"

-----------------------------------------------------------------------------
(* Scan API: properties                                                     *)

\* Both requests have finished and both scanners returned a result.
BothScannersCompleted ==
    \A sc \in Scanners : apiScan[sc].pc = "done" /\ apiScan[sc].ok

\* C16: once the trivy and the osv scan of one image have both completed
\* successfully, in either order, the stored report and summary hold each
\* scanner's result under the scanner's name.
C16_ScannersAccumulate ==
    BothScannersCompleted =>
        \A i \in 1..Len(vulnScans) :
            ScanKey(vulnScans[i]) = ApiImage =>
                /\ vulnScans[i].Report.kind = "wrapped"
                /\ vulnScans[i].Summary.kind = "wrapped"
                /\ \A sc \in Scanners :
                      /\ <<sc, ScannerReport(sc)>> \in vulnScans[i].Report.data
                      /\ <<sc, ScannerSummary(sc)>> \in vulnScans[i].Summary.data

-----------------------------------------------------------------------------
(* Retention engine: independence and determinism of the decisions          *)

\* C17: the outcome of the DeleteManifest issued for a deletion-eligible tag
\* does not depend on an earlier deletion of the run: no DeleteManifest is
\* issued for a manifest that an earlier DeleteManifest of the same run has
\* removed, also when two deletion-eligible tags resolve to one digest.
C17_DeletionsIndependent ==
    \A c1, c2 \in 1..Len(deleteCalls) :
        (c1 < c2 /\ deleteCalls[c1].Ok /\ deleteCalls[c1].Repo = deleteCalls[c2].Repo)
            => deleteCalls[c2].Digest # deleteCalls[c1].Digest

\* Position of tag t in the registry's tag listing.
ListIndex(t) == CHOOSE i \in 1..Len(TagList) : TagList[i] = t

\* The candidates of the run in the one order that depends on the registry
\* data alone: newest first, equal creation times in listing order.
ReferenceOrder ==
    LET n == Len(images)
    IN  CHOOSE s \in {[i \in 1..n |-> images[p[i]]] : p \in Permutations(1..n)} :
            \A i, j \in 1..n :
                i < j => \/ s[i].Created > s[j].Created
                         \/ /\ s[i].Created = s[j].Created
                            /\ ListIndex(s[i].Tag) < ListIndex(s[j].Tag)

\* The outcome of the run that processes the candidates in ReferenceOrder:
\* "kept", or "delete" for would_delete / deleted / error_delete.
ReferenceKept(k) == Decide(k - 1, ReferenceOrder[k]).keep
ReferenceOutcome(t) ==
    LET k == CHOOSE i \in 1..Len(images) : ReferenceOrder[i].Tag = t
    IN  IF \/ ReferenceKept(k)
           \/ \E i \in 1..Len(images) :
                 ReferenceKept(i) /\ ReferenceOrder[i].Digest = ReferenceOrder[k].Digest
        THEN "kept" ELSE "delete"

Outcome(action) == IF action = "kept" THEN "kept" ELSE "delete"

\* C18: the outcome logged for every tag is a function of the policy, the
\* registry data and now: every run over the same fetched tags logs for each
\* tag what the run in ReferenceOrder logs, whatever the completion order of
\* the fetches and also when tags have equal creation times.
C18_DecisionsDeterministic ==
    rpc = "done" =>
        \A k \in 1..Len(logs) : Outcome(logs[k].Action) = ReferenceOutcome(logs[k].Tag)

-----------------------------------------------------------------------------
(* Retention engine: fetch failures                                         *)

\* The tags of the repository of the run whose fetch failed.
DroppedTags == {t \in TagNames : <<RepoName, t>> \in fetchErrs}

\* The logs that record a DeleteManifest call.
DeleteLogs == {k \in 1..Len(logs) : logs[k].Action \in {"deleted", "error_delete"}}

\* C19: a tag whose creation-time or digest fetch failed is dropped from the
\* run: it has no RetentionLog, it is no candidate and takes no position in the
\* newest-first order, so with keepLastCount = N the N newest fetched tags are
\* kept as 'within last N' whatever newer tag was dropped, and every
\* DeleteManifest of the run is the one recorded by the log of a fetched tag.
C19_FailClosedDrop ==
    /\ \A t \in DroppedTags :
         /\ \A k \in 1..Len(logs) : logs[k].Tag # t
         /\ \A i \in 1..Len(images) : images[i].Tag # t
         /\ \A i \in 1..Len(decisions) : decisions[i].img.Tag # t
    /\ rpc \in {"sort", "pass1", "pass2", "done"} =>
         Len(images) = Cardinality(TagNames \ DroppedTags)
    /\ (rpc = "done" /\ policy.KeepLastCount > 0) =>
         \A k \in 1..Len(logs) :
            k <= policy.KeepLastCount =>
               /\ logs[k].Action = "kept"
               /\ \E i \in 1..Len(decisions) :
                     /\ decisions[i].img.Tag = logs[k].Tag
                     /\ KeepByCount(i - 1)
    /\ Len(deleteCalls) = Cardinality(DeleteLogs)
    /\ \A c \in 1..Len(deleteCalls) :
         \E k \in DeleteLogs : logs[k].Digest = deleteCalls[c].Digest

\* keepLastCount = 1: the fetch of the newest tag failed; the newest fetched
\* tag takes the slot and is kept, and the oldest tag is deleted.
C19_Witness ==
    /\ rpc = "done"
    /\ policy.KeepLastCount = 1
    /\ policy.KeepDays = 0
    /\ ~policy.DryRun
    /\ DroppedTags = {"latest"}
    /\ repoTags["latest"].Created = Now - 23
    /\ Len(logs) = 2
    /\ logs[1].Tag = "v1"
    /\ repoTags["v1"].Created = Now - 24
    /\ logs[1].Reason = "within last 1 images"
    /\ logs[2].Action = "deleted"

-----------------------------------------------------------------------------
(* Scan scheduler: hand-over of the jobs                                    *)

\* The accepted jobs, by number, that are still in the queue.
QueuedJobs == {chanSeqs[i] : i \in 1..Len(chanSeqs)}

-----------------------------------------------------------------------------
(* Scan scheduler: the records a worker writes                              *)

\* The positions of a worker between its receive and the end of the loop body.
MidJob == {"save1_select", "save1_exec", "scan", "save2_select", "save2_exec"}

\* The positions after the first SaveScan has returned nil.
AfterFirstSave == {"scan", "save2_select", "save2_exec"}

\* The (registryID, repository, tag) of a job.
JobKey(job) == [RegistryID |-> job.RegistryID, Repository |-> job.Repo, Tag |-> job.Tag]

\* The rows of a vuln_scans table with the given key.
RowsOf(table, key) == {i \in 1..Len(table) : ScanKey(table[i]) = key}

\* A record as the worker holds it after the scanner succeeded / failed.
IsCompletedRecord(r) ==
    r.Status = "completed" /\ r.Report = "trivy report" /\ r.Summary = "trivy summary"
IsFailedRecord(r) ==
    r.Status = "failed" /\ r.Report = "{\"error\": \"scan failed\"}" /\ r.Summary = ""

\* C21: a worker invokes the scanner for a job only after a record with the
\* job's key has been persisted with status 'scanning'; what it holds once the
\* scanner has returned is 'completed' with the returned report and summary or
\* 'failed' with the error payload as report, and that is the record its second
\* SaveScan persists.
C21_WorkerRecordOrdering ==
    /\ [](\A w \in WorkerIDs :
            /\ workers[w].pc \in AfterFirstSave =>
                  RowsOf(vulnScans, JobKey(workers[w].job)) # {}
            /\ workers[w].pc \in {"save2_select", "save2_exec"} =>
                  IsCompletedRecord(workers[w].scan) \/ IsFailedRecord(workers[w].scan))
    /\ [][\A w \in WorkerIDs :
            /\ (workers[w].pc # "scan" /\ workers'[w].pc = "scan") =>
                  \E i \in RowsOf(vulnScans', JobKey(workers'[w].job)) :
                      vulnScans'[i].Status = "scanning"
            /\ (workers[w].pc = "save2_exec" /\ workers'[w].pc = "idle"
                                             /\ saveErrs' = saveErrs) =>
                  \E i \in RowsOf(vulnScans', JobKey(workers[w].job)) :
                      /\ vulnScans'[i] = workers[w].scan
                      /\ vulnScans'[i].Status \in {"completed", "failed"}]_vars

\* Both jobs of the trigger were processed to the end: one scan succeeded and
\* one failed, and the rows hold the two final records.
C21_Witness ==
    /\ received = 2
    /\ \A w \in LiveWorkers : workers[w].pc = "idle"
    /\ \E i, j \in 1..Len(vulnScans) :
         /\ IsCompletedRecord(vulnScans[i])
         /\ IsFailedRecord(vulnScans[j])

\* C22: a record in 'scanning' state belongs to a job a worker is still
\* processing: once the worker is through with the job (the scanner has
\* returned and the worker is back at the queue) the record is 'completed' or
\* 'failed' (in the runs in which no goroutine panics).
C22_NoStaleScanning ==
    ~panicked =>
        \A i \in 1..Len(vulnScans) :
            vulnScans[i].Status = "scanning" =>
                \E w \in WorkerIDs :
                    /\ workers[w].pc \in AfterFirstSave
                    /\ JobKey(workers[w].job) = ScanKey(vulnScans[i])

\* The step is a failure of the job worker w holds: its SaveScan returns an
\* error, or the scanner does.
SaveFailureOf(w) == saveErrs' # saveErrs /\ workers'[w] # workers[w]
ScanFailureOf(w) ==
    workers[w].pc = "scan" /\ workers'[w].pc = "save2_select" /\ workers'[w].scan.Status = "failed"

\* C23: a SaveScan error or a scanner error of one job leaves the worker
\* running (after a SaveScan error it is back at the queue), leaves every other
\* worker, the table and the queue as they were, and the job is not queued
\* again: every accepted job was counted by a dispatch and is received at most
\* once; and a worker only ever writes rows of the key of its own job.
C23_FailureIsolation ==
    /\ [](/\ Len(recvCount) = SumCounts(Len(dispatch))
          /\ \A k \in 1..Len(recvCount) : recvCount[k] <= 1)
    /\ [][/\ \A w \in WorkerIDs :
               (SaveFailureOf(w) \/ ScanFailureOf(w)) =>
                  /\ workers'[w].pc \in {"idle", "save2_select"}
                  /\ SaveFailureOf(w) => workers'[w].pc = "idle"
                  /\ \A v \in WorkerIDs \ {w} : workers'[v] = workers[v]
                  /\ vulnScans' = vulnScans
                  /\ jobChan' = jobChan
                  /\ chanSeqs' = chanSeqs
                  /\ recvCount' = recvCount
                  /\ dispatch' = dispatch
          /\ \A i \in 1..Len(vulnScans) :
               vulnScans'[i] # vulnScans[i] =>
                  \E w \in WorkerIDs :
                     /\ workers[w].pc \in {"save1_exec", "save2_exec"}
                     /\ JobKey(workers[w].job) = ScanKey(vulnScans[i])
                     /\ JobKey(workers[w].job) = ScanKey(vulnScans'[i])]_vars

\* Both jobs failed, one at its first SaveScan (it has no row) and one in the
\* scanner (its row is 'failed'), and both workers are back at the queue.
C23_Witness ==
    /\ saveErrs = 1
    /\ received = 2
    /\ ~panicked
    /\ Len(vulnScans) = 1
    /\ IsFailedRecord(vulnScans[1])
    /\ Cardinality({w \in WorkerIDs : workers[w].pc = "idle"}) = NumWorkers

-----------------------------------------------------------------------------
(* Scan scheduler: Stop() and the scans in flight                           *)

\* Worker w, in the middle of a job after Stop() was called, takes part in the
\* step or is ended by it.
InFlightAtStop(w) == quitClosed /\ workers[w].pc \in MidJob

\* C29: once Stop() has been called, a worker in the middle of a job goes on
\* with that job: its next positions are those of the job, up to the queue
\* again, where the final record of the job is persisted; it exits from the
\* queue only, and Stop() returns only when no worker is in the middle of a job.
C29_StopLeavesScanRunning ==
    [][/\ \A w \in WorkerIDs :
            InFlightAtStop(w) =>
               /\ workers'[w].pc \in MidJob \cup {"idle"}
               /\ workers'[w].pc = "idle" =>
                     \E i \in RowsOf(vulnScans', JobKey(workers[w].job)) :
                         vulnScans'[i].Status \in {"completed", "failed"}
       /\ (stopPc # "returned" /\ stopPc' = "returned") =>
             \A w \in WorkerIDs : workers[w].pc \notin MidJob]_vars

\* The same for the steps that are no panic: without the panic of a send on
\* the closed queue the scans in flight are finished.
StopLeavesScanRunningUnlessPanic ==
    [][~panicked' =>
        /\ \A w \in WorkerIDs :
            InFlightAtStop(w) =>
               /\ workers'[w].pc \in MidJob \cup {"idle"}
               /\ workers'[w].pc = "idle" =>
                     \E i \in RowsOf(vulnScans', JobKey(workers[w].job)) :
                         vulnScans'[i].Status \in {"completed", "failed"}
        /\ (stopPc # "returned" /\ stopPc' = "returned") =>
             \A w \in WorkerIDs : workers[w].pc \notin MidJob]_vars

-----------------------------------------------------------------------------
(* Scan scheduler: policy edits, filters and the timer                      *)

\* C24: a SaveScanPolicy request leaves lastRunAt and nextRunAt of every
\* stored policy as they were, so that a policy that was triggered is not
\* triggered again before the nextRunAt that trigger set: a later trigger of
\* the same policy comes at a now after the earlier trigger's now plus the
\* interval the earlier trigger used.
C24_EditsLeaveSchedule ==
    /\ [][edits' # edits =>
            \A id \in DOMAIN scanPolicies :
                /\ scanPolicies'[id].LastRunAt = scanPolicies[id].LastRunAt
                /\ scanPolicies'[id].NextRunAt = scanPolicies[id].NextRunAt]_vars
    /\ [](\A i, j \in 1..Len(dispatch) :
            (i < j /\ dispatch[i].policy.ID = dispatch[j].policy.ID) =>
                dispatch[j].at > dispatch[i].at + EffectiveInterval(dispatch[i].policy))

\* The consequence alone: no policy is triggered twice at one reading of the
\* clock.
NoRetriggerAtSameNow ==
    \A i, j \in 1..Len(dispatch) :
        (i < j /\ dispatch[i].policy.ID = dispatch[j].policy.ID) => dispatch[j].at > dispatch[i].at

\* C25: the dispatch of a due policy whose filterRepos does not compile goes on
\* to enumerate the repositories: it does not end at the error of
\* regexp.Compile.
C25_InvalidFilterNoAbort ==
    \A d \in 1..Len(dispatch) :
        ~FilterCompiles(dispatch[d].policy) => dispatch[d].pc # "bad_filter"

\* A tick can run as far as the timer routine is concerned (and the model's
\* bounds leave room for it).
TickPossible ==
    /\ started
    /\ tickers > 0
    /\ ticks < MaxTicks
    /\ Len(dispatch) + Cardinality(DueIDs(clock)) <= MaxTriggers

\* C28: a tick runs whatever the enumerations launched earlier and the queue
\* are doing, and it is over in one go: it launches an enumeration, at its
\* start, for every enabled policy that is due and leaves the earlier
\* enumerations and the queue as they are.
C28_TimerNeverWaits ==
    /\ [](TickPossible => ENABLED CheckSchedules)
    /\ [][ticks' # ticks =>
            /\ Len(dispatch') = Len(dispatch) + Cardinality(DueIDs(clock))
            /\ \A id \in DueIDs(clock) :
                  \E d \in (Len(dispatch) + 1)..Len(dispatch') :
                      dispatch'[d].policy.ID = id /\ dispatch'[d].pc = "start"
            /\ \A d \in 1..Len(dispatch) : dispatch'[d] = dispatch[d]
            /\ jobChan' = jobChan]_vars

\* The enumeration of the first policy is at its select against the full queue,
\* of which no worker has taken anything, and a later tick has triggered the
\* other policy.
C28_Witness ==
    /\ Len(dispatch) = 2
    /\ dispatch[1].pc = "enqueue"
    /\ dispatch[1].count = 1
    /\ ~HasRoom(jobChan)
    /\ received = 0
    /\ dispatch[2].tick > dispatch[1].tick
    /\ dispatch[2].policy.ID # dispatch[1].policy.ID

(***************************************************************************)
(* Retention engine: invalid patterns and delete failures in a whole run   *)

\* The strings a well-formed pattern of the model matches, by the regular
\* expression itself; a malformed pattern has no entry.
WellFormedPatterns == {"^latest$", "^(latest|v1)$", "^library/", "db$"}
PatternMatches(re) ==
    CASE re = "^latest$" -> {"latest"}
      [] re = "^(latest|v1)$" -> {"latest", "v1"}
      [] re = "^library/" -> {"library/app", "library/db"}
      [] re = "db$" -> {"library/db"}

\* What each field asks for, an empty or malformed pattern being no filter.
SelectedByFilterRepos(name) ==
    policy.FilterRepos \in WellFormedPatterns => name \in PatternMatches(policy.FilterRepos)
ExcludedByExcludeRepos(name) ==
    policy.ExcludeRepos \in WellFormedPatterns /\ name \in PatternMatches(policy.ExcludeRepos)
ProtectedByExcludeTags(t) ==
    policy.ExcludeTags \in WellFormedPatterns /\ t \in PatternMatches(policy.ExcludeTags)

\* The reasons pass 1 gives to a tag the whitelist protects.
WhitelistReasons ==
    {"matches whitelist tag"} \cup
    {"within last " \o ToString(n) \o " images AND matches whitelist" : n \in 1..MaxKeepLastCount}

\* C26: a run with a malformed filterRepos, excludeRepos or excludeTags pattern
\* still returns its logs, and each field acts on its own: a repository is
\* skipped iff a well-formed filterRepos does not match it or a well-formed
\* excludeRepos matches it, and a tag is kept as whitelisted iff a well-formed
\* excludeTags matches it (and some rule is set).
C26_InvalidPatternIsNoFilter ==
    /\ runPc # "failed" =>
         \A r \in RepoIDs :
            repoStatus[r] # "pending" =>
               (repoStatus[r] = "skipped" <=>
                   \/ ~SelectedByFilterRepos(Repositories[r].Name)
                   \/ ExcludedByExcludeRepos(Repositories[r].Name))
    /\ \A k \in 1..Len(allLogs) :
          allLogs[k].Reason \in WhitelistReasons <=>
             (ProtectedByExcludeTags(allLogs[k].Tag) /\ ~NoPolicySet)
    /\ runPc = "returned" => \A r \in RepoIDs : repoStatus[r] # "pending"

\* A run returned under a policy whose filterRepos and excludeTags do not
\* compile and whose excludeRepos is db$: library/app was processed and its v1
\* deleted, library/db was skipped.
C26_Witness ==
    /\ runPc = "returned"
    /\ policy.FilterRepos = "("
    /\ policy.ExcludeRepos = "db$"
    /\ policy.ExcludeTags = "("
    /\ repoStatus[1] = "processed"
    /\ repoStatus[2] = "skipped"
    /\ \E k \in RunLogsOfTag("library/app", "v1") : allLogs[k].Action = "deleted"

\* The other way round: filterRepos and excludeTags well formed, excludeRepos
\* malformed; both library repositories are processed and v1 is whitelisted.
InvalidExcludeReposExcludesNone ==
    /\ runPc = "returned"
    /\ policy.FilterRepos = "^library/"
    /\ policy.ExcludeRepos = "("
    /\ policy.ExcludeTags = "^(latest|v1)$"
    /\ repoStatus[1] = "processed"
    /\ repoStatus[2] = "processed"
    /\ repoStatus[3] = "skipped"
    /\ \E k \in RunLogsOfTag("library/db", "v1") : allLogs[k].Reason = "matches whitelist tag"

\* Every entry written so far: those of the repositories already processed and
\* those of the processRepository call in progress.
EntriesSoFar == allLogs \o logs

FailedDeleteCalls == {c \in 1..Len(deleteCalls) : ~deleteCalls[c].Ok}

\* The entries of repository name whose action issued a DeleteManifest.
DeleteEntriesOf(name) ==
    {k \in RunLogsOf(name) : allLogs[k].Action \in {"deleted", "error_delete"}}

\* C27: a DeleteManifest that failed is logged as 'error_delete' with the
\* failure as its reason (and only a failed call is), and the run goes on: it
\* returns with every repository passing the filters visited, every fetched tag
\* of every processed repository logged once, and one DeleteManifest issued for
\* every entry that is 'deleted' or 'error_delete', whatever failed before.
C27_DeleteFailureDoesNotAbort ==
    /\ \A c \in FailedDeleteCalls :
          \E k \in 1..Len(EntriesSoFar) :
             /\ EntriesSoFar[k].Repository = deleteCalls[c].Repo
             /\ EntriesSoFar[k].Digest = deleteCalls[c].Digest
             /\ EntriesSoFar[k].Action = "error_delete"
             /\ EntriesSoFar[k].Reason = "failed to delete: registry error"
    /\ Cardinality({k \in 1..Len(EntriesSoFar) : EntriesSoFar[k].Action = "error_delete"})
          = Cardinality(FailedDeleteCalls)
    /\ (FailedDeleteCalls # {} /\ runPc # "in_repo") => runPc \in {"loop", "returned"}
    /\ (FailedDeleteCalls # {} /\ runPc = "returned") =>
          \A r \in RepoIDs :
             /\ repoStatus[r] # "pending"
             /\ \A t \in TagNames :
                   TagFetched(r, t) => Cardinality(RunLogsOfTag(Repositories[r].Name, t)) = 1
             /\ Cardinality(DeleteEntriesOf(Repositories[r].Name))
                   = Cardinality(DeleteCallsOf(Repositories[r].Name))

\* A run returned in which the DeleteManifest of library/app's v1 failed, and
\* after it v2 of the same repository and a tag of library/db were deleted.
C27_Witness ==
    /\ runPc = "returned"
    /\ \E k1, k2 \in RunLogsOf("library/app") :
          /\ k1 < k2
          /\ allLogs[k1].Tag = "v1" /\ allLogs[k1].Action = "error_delete"
          /\ allLogs[k2].Tag = "v2" /\ allLogs[k2].Action = "deleted"
    /\ \E k \in RunLogsOf("library/db") : allLogs[k].Action = "deleted"

(***************************************************************************)
(* Retention engine: properties of the fetch goroutines                    *)

\* The goroutines between their send on sem and their receive from it.
SlotHolders == {g \in Fetchers : fetchers[g].pc \in {"fetching", "append", "release"}}

\* The goroutines whose requests to the registry are in progress.
InFlight == {g \in Fetchers : fetchers[g].pc = "fetching"}

FetchPhaseOver == rpc # "fetch"

\* The steps goroutine g has still to take, and those of the whole phase: the
\* spawns and the steps of the goroutines, then the return of wg.Wait().
StepsLeft(g) ==
    CASE fetchers[g].pc = "acquire" -> 4
      [] fetchers[g].pc = "fetching" -> 3
      [] fetchers[g].pc = "append" -> 2
      [] fetchers[g].pc = "release" -> 1
      [] OTHER -> 0
RECURSIVE SumStepsLeft(_)
SumStepsLeft(g) == IF g = 0 THEN 0 ELSE StepsLeft(g) + SumStepsLeft(g - 1)
PhaseStepsLeft ==
    (IF FetchPhaseOver THEN 0 ELSE 1)
       + 5 * (Len(ListedTags) - Len(fetchers)) + SumStepsLeft(Len(fetchers))

\* C30: at any moment at most 5 goroutines hold a slot of sem, so at most 5
\* fetches are in flight, however many tags were listed; and the phase
\* terminates with every goroutine finished: while it lasts some step can be
\* taken, a goroutine waiting for a slot has a slot free or a holder that can
\* go on to release its own, every step brings the end nearer, and wg.Wait()
\* returns only when every listed tag's goroutine got its slot and finished.
C30_BoundedFetchTerminates ==
    /\ [](/\ Cardinality(SlotHolders) = sem
          /\ sem <= SemCap
          /\ Cardinality(InFlight) <= SemCap
          /\ ~FetchPhaseOver => ENABLED FetchNext
          /\ \A g \in Fetchers :
                fetchers[g].pc = "acquire" =>
                   \/ ENABLED AcquireSlot(g)
                   \/ \E h \in SlotHolders : ENABLED FetchStep(h)
          /\ FetchPhaseOver =>
                /\ Len(fetchers) = Len(ListedTags)
                /\ \A g \in Fetchers : fetchers[g].pc = "done"
                /\ sem = 0)
    /\ [][PhaseStepsLeft' < PhaseStepsLeft]_vars

\* Six tags were listed: five goroutines hold the slots, their fetches in
\* flight, and the sixth waits to send on sem.
C30_Witness ==
    /\ Len(ListedTags) = 6
    /\ Cardinality(InFlight) = SemCap
    /\ \E g \in Fetchers : fetchers[g].pc = "acquire"

\* The fetch of six tags is over: the tag appended last is that of a
\* goroutine that had to wait for a slot, since the five before it held them.
AllSixFetched ==
    /\ FetchPhaseOver
    /\ Len(ListedTags) = 6
    /\ Len(images) = 6
    /\ sem = 0

\* The listed tags, and those whose two requests both succeeded.
ListedTagSet == {ListedTags[i] : i \in 1..Len(ListedTags)}
FetchedTagSet == {t \in ListedTagSet : <<RepoName, t>> \notin fetchErrs}

\* The entries of the candidate list for tag t.
CandidatesOf(t) == {i \in 1..Len(images) : images[i].Tag = t}

\* The goroutine of tag t has appended its entry.
HasAppended(t) ==
    \E g \in Fetchers : fetchers[g].Tag = t /\ fetchers[g].pc \in {"release", "done"}

\* C31: while the goroutines run no tag has two entries in the candidate list
\* and every entry is the one its goroutine built; when the fetch phase is
\* over the list holds exactly one entry for each tag whose creation time and
\* digest were both fetched and none for any other; and the sort and the
\* decision pass run only once every goroutine has finished, on that list.
C31_NoCandidateLostOrDuplicated ==
    /\ \A i \in 1..Len(images) :
          /\ images[i].Tag \in ListedTagSet
          /\ images[i] = ImageInfo(images[i].Tag)
    /\ \A t \in ListedTagSet :
          /\ Cardinality(CandidatesOf(t)) <= 1
          /\ (CandidatesOf(t) # {}) <=> (t \in FetchedTagSet /\ HasAppended(t))
    /\ FetchPhaseOver =>
          /\ Len(fetchers) = Len(ListedTags)
          /\ \A g \in Fetchers : fetchers[g].pc = "done"
          /\ Len(images) = Cardinality(FetchedTagSet)
          /\ \A t \in ListedTagSet :
                Cardinality(CandidatesOf(t)) = IF t \in FetchedTagSet THEN 1 ELSE 0
    /\ rpc = "pass2" =>
          /\ Len(decisions) = Cardinality(FetchedTagSet)
          /\ \A t \in FetchedTagSet :
                Cardinality({i \in 1..Len(decisions) : decisions[i].img.Tag = t}) = 1

\* The fetch of six tags is over with the requests of v1 and v2 failed: the
\* list holds the four other tags, appended in an order that is not the
\* listing order.
C31_Witness ==
    /\ rpc = "sort"
    /\ Len(ListedTags) = 6
    /\ FetchedTagSet = {"latest", "v3", "v4", "v5"}
    /\ Len(images) = 4
    /\ images[1].Tag = "v5"
    /\ images[4].Tag = "latest"

\* The decision pass has run on the six candidates of six fetched tags.
SixDecisions ==
    /\ rpc = "pass2"
    /\ Len(decisions) = 6

(***************************************************************************)
(* Scan scheduler: which policies a tick triggers                          *)

\* The triggerPolicy goroutines the step launches for the policy row id.
LaunchedFor(id) ==
    {k \in (Len(dispatch) + 1)..Len(dispatch') : dispatch'[k].policy.ID = id}

\* The row is enabled, and its next_run_at is unset or strictly before now.
EnabledAndDue(row, now) ==
    /\ row.Enabled
    /\ (row.NextRunAt = ZeroTime \/ row.NextRunAt < now)

\* C32: a tick launches one trigger for a policy iff the policy is enabled and
\* its nextRunAt is unset or strictly before now; for a disabled policy, and
\* for an enabled one with now <= nextRunAt, it launches none and leaves the
\* row, lastRunAt and nextRunAt included, as it was.
C32_TriggeredIffEnabledAndDue ==
    [][ticks' # ticks =>
          \A id \in DOMAIN scanPolicies :
             IF EnabledAndDue(scanPolicies[id], clock)
             THEN /\ Cardinality(LaunchedFor(id)) = 1
                  /\ scanPolicies'[id].LastRunAt = clock
             ELSE /\ LaunchedFor(id) = {}
                  /\ scanPolicies'[id] = scanPolicies[id]]_vars

\* A tick at now = 2 has triggered the policy of the mirror, due since 1, and
\* left alone the policy of the registry, enabled with nextRunAt = 2.
C32_Witness ==
    /\ clock = 2
    /\ scanPolicies[1].Enabled
    /\ scanPolicies[1].NextRunAt = 2
    /\ scanPolicies[1].LastRunAt = ZeroTime
    /\ 2 \in DOMAIN scanPolicies
    /\ scanPolicies[2].LastRunAt = 2
    /\ Len(dispatch) = 1
    /\ dispatch[1].policy.ID = 2
    /\ dispatch[1].at = 2

\* A tick has left a disabled policy with an unset nextRunAt alone.
DisabledLeftAlone ==
    /\ ticks > 0
    /\ edits = 0
    /\ ~scanPolicies[1].Enabled
    /\ scanPolicies[1].NextRunAt = ZeroTime
    /\ scanPolicies[1].LastRunAt = ZeroTime
    /\ \A k \in 1..Len(dispatch) : dispatch[k].policy.ID # 1

(***************************************************************************)
(* Retention engine: repository filtering                                  *)

\* Both repository patterns of the policy are unset or compile.  (What a
\* pattern that does not compile does is the matter of C26.)
RepoPatternsWellFormed ==
    /\ policy.FilterRepos \in {""} \cup WellFormedPatterns
    /\ policy.ExcludeRepos \in {""} \cup WellFormedPatterns

\* The name matches filterRepos when it is set, and does not match
\* excludeRepos when it is set.
PassesBothTests(name) ==
    /\ policy.FilterRepos # "" => name \in PatternMatches(policy.FilterRepos)
    /\ policy.ExcludeRepos # "" => name \notin PatternMatches(policy.ExcludeRepos)

\* The loop has gone past repository r, or stands in it.
Visited(r) == repoStatus[r] # "pending" \/ (runPc = "in_repo" /\ repoIdx = r)

\* C33: with well-formed patterns, a repository the loop has reached is taken
\* to processRepository iff its name matches filterRepos (when set) and does
\* not match excludeRepos (when set); a repository failing either test is
\* skipped for good: processRepository is never entered for it, so its tags
\* are not listed, and it has no log entry and no DeleteManifest.
C33_RepositoryFiltering ==
    /\ [](RepoPatternsWellFormed =>
            \A r \in RepoIDs :
               /\ Visited(r) =>
                     (repoStatus[r] = "skipped" <=> ~PassesBothTests(Repositories[r].Name))
               /\ ~PassesBothTests(Repositories[r].Name) =>
                     /\ ~(runPc = "in_repo" /\ repoIdx = r)
                     /\ repoStatus[r] \in {"pending", "skipped"}
                     /\ RunLogsOf(Repositories[r].Name) = {}
                     /\ \A k \in 1..Len(logs) : logs[k].Repository # Repositories[r].Name
                     /\ DeleteCallsOf(Repositories[r].Name) = {})
    /\ [][\A r \in RepoIDs : repoStatus[r] = "skipped" => repoStatus'[r] = "skipped"]_vars

\* A run returned under filterRepos ^library/ and excludeRepos db$:
\* library/app was processed and a tag of it deleted, library/db was skipped
\* by excludeRepos and tools/empty by filterRepos.
C33_Witness ==
    /\ runPc = "returned"
    /\ policy.FilterRepos = "^library/"
    /\ policy.ExcludeRepos = "db$"
    /\ repoStatus = <<"processed", "skipped", "skipped">>
    /\ \E c \in DeleteCallsOf("library/app") : deleteCalls[c].Ok
    /\ Cardinality(RunLogsOf("library/app")) = 3

(***************************************************************************)
(* Scan scheduler: order of the jobs through the queue                     *)

\* The accepted jobs, by number in order of acceptance, received so far.
ReceivedJobs == {k \in 1..Len(recvCount) : recvCount[k] > 0}

\* C34: the jobs leave the queue in the order the queue accepted them: the
\* queue holds its jobs in order of acceptance, every received job was
\* accepted before every job still queued, so the received jobs are the first
\* ones accepted, and each receive hands a worker the job accepted first among
\* those not yet received.  Nothing is said of the order in which the two
\* workers finish.
C34_FifoDequeue ==
    /\ [](/\ \A i, j \in 1..Len(chanSeqs) : i < j => chanSeqs[i] < chanSeqs[j]
          /\ \A a, b \in 1..Len(recvCount) : (a < b /\ b \in ReceivedJobs) => a \in ReceivedJobs
          /\ \A a \in ReceivedJobs : \A b \in QueuedJobs : a < b)
    /\ [][received' # received =>
            /\ ReceivedJobs' = ReceivedJobs \cup {Cardinality(ReceivedJobs) + 1}
            /\ Cardinality(ReceivedJobs') = Cardinality(ReceivedJobs) + 1
            /\ \E w \in WorkerIDs :
                  /\ workers[w].pc = "idle"
                  /\ workers'[w].pc = "save1_select"
                  /\ workers'[w].job = jobChan[1]]_vars

\* Four jobs of two enumerations were accepted: the two accepted first have
\* been received, one by each worker, one of them a job of the mirror,
\* and the two accepted after them wait in the queue in that order.
C34_Witness ==
    /\ recvCount = <<1, 1, 0, 0>>
    /\ chanSeqs = <<3, 4>>
    /\ jobChan[1].RegistryID # jobChan[2].RegistryID
    /\ \E w1, w2 \in WorkerIDs :
          /\ w1 # w2
          /\ workers[w1].pc = "scan" /\ workers[w1].job.RegistryID = MirrorRegistry.ID
          /\ workers[w2].pc = "scan"

\* The later job is finished first: the job accepted second is saved as
\* completed while the job accepted first is still being scanned.
LaterJobFinishedFirst ==
    /\ recvCount = <<1, 1>>
    /\ \E w \in WorkerIDs :
          /\ workers[w].pc = "scan"
          /\ workers[w].job.RegistryID = ScanRegistry.ID
          /\ workers[w].job.Tag = "latest"
    /\ \E i \in 1..Len(vulnScans) :
          /\ vulnScans[i].RegistryID = ScanRegistry.ID
          /\ vulnScans[i].Tag = "v1"
          /\ vulnScans[i].Status = "completed"

(***************************************************************************)
(* Scan scheduler: failures of an enumeration                              *)

\* The repositories of the registry of enumeration dr, and the job of its
\* repository r and tag t.
ReposOfTrigger(dr) == ReposOf(dr.policy.RegistryID)
JobOf(dr, r, t) ==
    [RegistryURL |-> RegistryOf(dr.policy.RegistryID).URL,
     RegistryID |-> dr.policy.RegistryID,
     Repo |-> ReposOfTrigger(dr)[r].Name,
     Tag |-> ReposOfTrigger(dr)[r].Tags[t]]

\* Repository r matches the filterRepos of the policy of dr.
MatchesFilterRepos(dr, r) ==
    \/ dr.policy.FilterRepos = ""
    \/ /\ dr.policy.FilterRepos \in WellFormedPatterns
       /\ ReposOfTrigger(dr)[r].Name \in PatternMatches(dr.policy.FilterRepos)

\* Enumeration b stands at the repository after r of a, or is done if r is
\* the last one.
AtNextRepoOf(a, b) ==
    IF a.repo < Len(ReposOfTrigger(a))
    THEN b.pc = "list_tags" /\ b.repo = a.repo + 1
    ELSE b.pc = "done"

\* A step of enumeration d goes through the repositories and tags in order:
\* from a repository, whether it is filtered out, its listing fails or it has
\* no tag, to the next one; from a listed repository to its first tag; from a
\* tag, with a send or a timeout, to the next tag or the next repository.
EnumerationStep(d) ==
    LET a == dispatch[d]
        b == dispatch'[d]
    IN  CASE a.pc = "start" ->
               /\ jobChan' = jobChan
               /\ \/ b.pc \in {"returned", "bad_filter"}
                  \/ b.pc = "list_tags" /\ b.repo = 1
          [] a.pc = "list_tags" ->
               /\ jobChan' = jobChan
               /\ \/ AtNextRepoOf(a, b)
                  \/ /\ MatchesFilterRepos(a, a.repo)
                     /\ b.pc = "enqueue" /\ b.repo = a.repo /\ b.tag = 1
          [] a.pc = "enqueue" ->
               /\ \/ jobChan' = Append(jobChan, JobOf(a, a.repo, a.tag)) /\ b.count = a.count + 1
                  \/ jobChan' = jobChan /\ b.count = a.count
               /\ IF a.tag < Len(ReposOfTrigger(a)[a.repo].Tags)
                  THEN b.pc = "enqueue" /\ b.repo = a.repo /\ b.tag = a.tag + 1
                  ELSE AtNextRepoOf(a, b)
          [] OTHER -> FALSE

\* The interval the tick added to now for the policy as it read it.
IntervalOf(p) == IF p.IntervalHours >= 1 THEN p.IntervalHours ELSE 24

\* The jobs in the queue or in the hands of a worker.
JobsAbout ==
    {jobChan[i] : i \in 1..Len(jobChan)} \cup
    {workers[w].job : w \in {x \in WorkerIDs : workers[x].pc \in MidJob}}

LastRunOf(table) == GetRetentionPolicy(table, RetRegistryID).LastRunAt

\* The dryRun in effect for a request: the stored value (the default policy's
\* when no row is stored), overridden by dry_run = "true" or "false".
EffectiveDryRun(table, dryRunStr) ==
    OverrideDryRun(GetRetentionPolicy(table, RetRegistryID), dryRunStr).DryRun

\* The handler answers in this step.
Responds == retApi.pc # "responded" /\ retApi'.pc = "responded"

\* What the claim says of one step: an answering step writes the timestamp
\* iff the run returned without error and the effective dryRun is false, and
\* otherwise the timestamp stays.
TimestampFollowsRun ==
    /\ Responds =>
          IF retApi'.status = 200 /\ ~EffectiveDryRun(retPolicies, retApi'.dryRunStr)
          THEN LastRunOf(retPolicies') = Now
          ELSE LastRunOf(retPolicies') = LastRunOf(retPolicies)
    /\ ~Responds => LastRunOf(retPolicies') = LastRunOf(retPolicies)

\* C36: the step in which RunRetention answers sets the policy's last-run
\* timestamp to the current time iff the run returned without error and the
\* effective dryRun is false; a dry run, a failed run and every other step
\* leave the timestamp as it was.
C36_LastRunUpdatedIff == [][TimestampFollowsRun]_vars

\* The handler's own test agrees with the effective dryRun of the request.
EffectiveDryRunIsPolicyDryRun ==
    retApi.pc = "running" => policy.DryRun = EffectiveDryRun(retPolicies, retApi.dryRunStr)

\* With a stored row the claim holds: the timestamp is written iff the run
\* returned without error and was not a dry run.
LastRunUpdatedIffWithRow ==
    [][(RetRegistryID \in DOMAIN retPolicies) => TimestampFollowsRun]_vars

\* A run with dry_run=false returned without error for a registry that has no
\* stored retention policy (it ran the default policy, not as a dry run), and
\* no timestamp is stored.
NonDryRunWithoutTimestamp ==
    /\ retApi = [pc |-> "responded", dryRunStr |-> "false", status |-> 200]
    /\ retPolicies = <<>>
    /\ runPc = "returned"
    /\ ~policy.DryRun
    /\ repoStatus[1] = "processed"
    /\ LastRunOf(retPolicies) = ZeroTime

\* A run with dry_run=false on a stored dry-run policy wrote the timestamp.
NonDryRunWithTimestamp ==
    /\ retApi = [pc |-> "responded", dryRunStr |-> "false", status |-> 200]
    /\ RetRegistryID \in DOMAIN retPolicies
    /\ retPolicies[RetRegistryID].DryRun
    /\ retPolicies[RetRegistryID].LastRunAt = Now

(***************************************************************************)
(* Scan policies: one record per registry                                  *)

\* The registries a scan policy can be saved for.
PolicyRegistries == {ScanRegistry.ID, MirrorRegistry.ID}

\* No step removes or renumbers the record of a registry that has one: the
\* record keeps its id and its registry, and a record is added only for a
\* registry that had none.
RecordsStayInPlace ==
    /\ \A regID \in PolicyRegistries :
         PolicyRowsOf(scanPolicies, regID) # {} =>
            PolicyRowsOf(scanPolicies', regID) = PolicyRowsOf(scanPolicies, regID)
    /\ \A id \in DOMAIN scanPolicies :
         /\ id \in DOMAIN scanPolicies'
         /\ scanPolicies'[id].ID = scanPolicies[id].ID
         /\ scanPolicies'[id].RegistryID = scanPolicies[id].RegistryID
    /\ \A id \in DOMAIN scanPolicies' \ DOMAIN scanPolicies :
         PolicyRowsOf(scanPolicies, scanPolicies'[id].RegistryID) = {}

\* C37: after any sequence of SaveScanPolicy requests and ticks of the timer
\* at most one ScanPolicy record exists per registry, and a save for a
\* registry that has a record updates that record in place.
C37_OnePolicyPerRegistry ==
    /\ [](\A regID \in PolicyRegistries :
             Cardinality(PolicyRowsOf(scanPolicies, regID)) <= 1)
    /\ [][RecordsStayInPlace]_vars

\* Two saves and a tick have happened: the record of the registry, there from
\* the start, carries the saved interval under its old id, the mirror has its
\* one record, and the timer has run a policy.
C37_Witness ==
    /\ edits = 2
    /\ ticks >= 1
    /\ DOMAIN scanPolicies = {1, 2}
    /\ scanPolicies[1].RegistryID = ScanRegistry.ID
    /\ scanPolicies[1].IntervalHours = 2
    /\ scanPolicies[1].FilterRepos = "^library/"
    /\ scanPolicies[2].RegistryID = MirrorRegistry.ID
    /\ scanPolicies[2].IntervalHours = 2
    /\ \E id \in DOMAIN scanPolicies : scanPolicies[id].LastRunAt # ZeroTime

\* Two saves for the mirror, which had no record: the first inserted it, the
\* second updated it, and the registry's record was not touched.
SavedTwiceForMirror ==
    /\ edits = 2
    /\ DOMAIN scanPolicies = {1, 2}
    /\ scanPolicies[1].IntervalHours # 2
    /\ scanPolicies[2].RegistryID = MirrorRegistry.ID
    /\ scanPolicies[2].IntervalHours = 2
    /\ scanPolicies[2].NextRunAt # ZeroTime

====
